---- MODULE Spec2Model ----
(***************************************************************************)
(* GongXi-Mail: a mail-fetching gateway.  This module models the server's  *)
(* credential layer, pool allocator, token cache and retention job as      *)
(* state machines, one specification per subsystem:                        *)
(*                                                                         *)
(*   Spec          the pool allocator and the /get-email route, concurrent *)
(*   SpecScope     the same route, one request at a time, every key scope  *)
(*   SpecRace      two concurrent /get-email requests and nothing else     *)
(*   SpecPool      the pool operations of the routes and of the admin      *)
(*   SpecFetch     the mail fetching routes                                *)
(*   SpecRate      the credential rate limiter                             *)
(*   SpecLogin     admin login and its lock-out                            *)
(*   SpecToken     the OAuth token cache                                   *)
(*   SpecRetention the API log retention job                               *)
(*   SpecPerm      the permission check                                    *)
(*   SpecTwoFa     two-factor management of an admin account, concurrent   *)
(*   SpecCancel    /get-email requests whose client goes away              *)
(*   SpecStrategy  /mail_new under every fetch strategy                    *)
(*   SpecClear     the clearing of a mailbox folder                        *)
(*   SpecCrypto    the secret box                                          *)
(*                                                                         *)
(* Every specification ranges over all the variables; the variables of the *)
(* other subsystems stay at their initial value.                           *)
(***************************************************************************)
EXTENDS Integers, Sequences, FiniteSets, TLC

VARIABLES
    emailStatus,    \* EmailAccount.status, by mailbox id
    mailMeta,       \* EmailAccount.errorMessage and lastCheckAt, by mailbox id
    apiKeyScope,    \* ApiKey.allowedGroupIds / allowedEmailIds, by key id
    usages,         \* EmailUsage rows: number of rows per (apiKeyId, emailAccountId)
    calls,          \* the in-flight /get-email requests, by request slot
    granted,        \* how many /get-email responses handed out each pair
    poolLast,       \* the last pool operation that ended: its input and result
    fetchLast,      \* the last mail fetching request that ended
    now,            \* the clock (Date.now()), in ticks
    redisConfigured,\* whether getRedis() returns a client
    redisFailed,    \* whether a call to the shared store has thrown so far
    rateLimit,      \* ApiKey.rateLimit of the credential
    rateRedis,      \* rate_limit:api_key:{id}:{minuteBucket} counters, by bucket
    rateLocal,      \* localRateLimitStore entry of the credential
    admitted,       \* authenticateApiKey calls that succeeded, by tick
    rateLast,       \* the last authenticateApiKey call: its result
    usage,          \* ApiKey.usageCount and lastUsedAt of the credential
    maxLoginAttempts,\* env.ADMIN_LOGIN_MAX_ATTEMPTS
    loginAdmin,     \* the account the login key's username names
    loginRedis,     \* auth:admin:login:attempt / lock keys of the login key
    loginLocal,     \* localLoginAttemptStore entry of the login key
    loginLast,      \* the last authService.login call: its result
    loginStreak,    \* the run of consecutive counted login failures
    graphCache,     \* graph_api_access_token_{email} cache entries, by address
    imapCache,      \* imap_api_access_token_{email} cache entries, by address
    tokenLast,      \* the last token call: its response and result
    apiLogs,        \* ApiLog rows: the createdAt values present
    running,        \* the running flag of the retention job
    retentionJob,   \* the retention execution in progress
    retentionLast,  \* the last retention execution that ended
    permMap,        \* ApiKey.permissions of the key
    permAction,     \* the action string of the last permission check
    permResult,     \* the decision of the last permission check
    twoFa,          \* Admin.twoFactorEnabled / Secret / TempSecret of the account
    twoFaCalls,     \* the two-factor calls between their read and their write
    twoFaIssued,    \* how many secrets generateBase32Secret has issued
    twoFaVerified,  \* the secret whose code the enabling call verified
    twoFaLast,      \* the last two-factor call that ended
    fetchStrategy,  \* EmailGroup.fetchStrategy of the group of each address
    clearLast,      \* the last processMailbox call: its input and result
    loginCalls,     \* the concurrent authService.login calls between their awaits
    loginPair,      \* one attempt sequence run on the shared store and on the in-process store
    totpLast,       \* the last verifyTotpCode call: its input and result
    parseLast,      \* the last parseApiPermissions call: its input and result
    imap,           \* one getEmailsViaImap call: the connection, the fetch and the promise
    cryptoLast      \* the last decrypt call: its input and result

poolVars == <<emailStatus, mailMeta, apiKeyScope, usages, calls, granted>>

\* What the handlers last returned.
lastVars == <<poolLast, fetchLast>>

rateVars == <<rateLimit, rateRedis, rateLocal, admitted, rateLast, usage>>

loginVars == <<maxLoginAttempts, loginAdmin, loginRedis, loginLocal, loginLast,
               loginStreak>>

tokenVars == <<graphCache, imapCache, tokenLast>>

retentionVars == <<apiLogs, running, retentionJob, retentionLast>>

permVars == <<permMap, permAction, permResult>>

twoFaVars == <<twoFa, twoFaCalls, twoFaIssued, twoFaVerified, twoFaLast>>

mailboxVars == <<fetchStrategy, clearLast>>

cryptoVars == <<cryptoLast>>

imapVars == <<imap>>

parseVars == <<parseLast>>

totpVars == <<totpLast>>

loginPairVars == <<loginPair>>

loginRaceVars == <<loginCalls>>

\* The two-factor calls, the mailbox clearing and the secret box.
serviceVars == <<twoFaVars, mailboxVars, cryptoVars,
                loginRaceVars,
                loginPairVars,
                totpVars,
                parseVars,
                imapVars>>

\* What an action of one subsystem leaves alone in the others.
nonPoolVars == <<now, redisConfigured, redisFailed, rateVars, loginVars, tokenVars,
                 retentionVars, permVars, serviceVars, lastVars>>

nonRateVars == <<poolVars, loginVars, tokenVars, retentionVars, permVars, serviceVars,
                 lastVars>>

nonLoginVars == <<poolVars, rateVars, tokenVars, retentionVars, permVars, serviceVars,
                  lastVars>>

nonTokenVars == <<poolVars, rateVars, loginVars, retentionVars, permVars, serviceVars, redisConfigured,
                  redisFailed, lastVars>>

nonRetentionVars == <<poolVars, rateVars, loginVars, tokenVars, permVars, serviceVars, redisConfigured,
                      redisFailed, lastVars>>

nonPermVars == <<poolVars, rateVars, loginVars, tokenVars, retentionVars, now,
                 redisConfigured, redisFailed, lastVars, twoFaVars, mailboxVars,
                 cryptoVars,
    loginRaceVars,
    loginPairVars,
    totpVars,
    parseVars,
    imapVars>>

nonTwoFaVars == <<poolVars, rateVars, loginVars, tokenVars, retentionVars, permVars,
                  now, redisConfigured, redisFailed, lastVars, mailboxVars,
                  cryptoVars,
    loginRaceVars,
    loginPairVars,
    totpVars,
    parseVars,
    imapVars>>

nonMailboxVars == <<poolVars, rateVars, loginVars, tokenVars, retentionVars, permVars,
                    now, redisConfigured, redisFailed, lastVars, twoFaVars,
                    cryptoVars,
    loginRaceVars,
    loginPairVars,
    totpVars,
    parseVars,
    imapVars>>

nonCryptoVars == <<poolVars, rateVars, loginVars, tokenVars, retentionVars, permVars,
                   now, redisConfigured, redisFailed, lastVars, twoFaVars,
                   mailboxVars,
    loginRaceVars,
    loginPairVars,
    totpVars,
    parseVars,
    imapVars>>

nonClockVars == <<poolVars, rateVars, loginVars, tokenLast, retentionVars, permVars, serviceVars,
                  redisConfigured, redisFailed, lastVars>>

vars == <<emailStatus, mailMeta, apiKeyScope, usages, calls, granted, poolLast,
          fetchLast, usage, now,
          redisConfigured, redisFailed, rateLimit, rateRedis, rateLocal,
          admitted, rateLast, maxLoginAttempts, loginAdmin, loginRedis,
          loginLocal, loginLast, loginStreak, graphCache, imapCache,
          tokenLast, apiLogs, running, retentionJob, retentionLast, permMap,
          permAction, permResult, twoFa, twoFaCalls, twoFaIssued,
          twoFaVerified, twoFaLast, fetchStrategy, clearLast, loginCalls, loginPair, totpLast, parseLast, imap,
          cryptoLast>>

(***************************************************************************)
(* Bounds of the pool model.                                               *)
(***************************************************************************)
NumKeys == 2
MaxMailbox == 3
NumGroups == 2
NumCalls == 2

ApiKeys == 1..NumKeys
Mailboxes == 1..MaxMailbox
Groups == 1..NumGroups
CallIds == 1..NumCalls

\* The retry bound of the /get-email loop: for (let i = 0; i < 3; i++).
MaxAttempts == 3

\* A group name of the request: 0 is "no group parameter", 1..NumGroups name
\* the existing groups, NumGroups + 1 is a name no group carries.
NoGroupName == 0
GroupNames == 0..(NumGroups + 1)

\* The group each mailbox belongs to (EmailAccount.groupId, nullable: ids are
\* positive and 0 stands for null): the mailboxes are spread over the groups,
\* every (NumGroups + 1)-th one has no group.
emailGroup(m) == m % (NumGroups + 1)

Min(S) == CHOOSE x \in S : \A y \in S : x <= y

(***************************************************************************)
(* pool.service: scope resolution.                                         *)
(***************************************************************************)
\* getApiKeyScope: an empty list is "no restriction" (undefined).
Restricted(list) == list # {}

\* resolveGroupId: undefined without a name, the id of the named group, or
\* GROUP_NOT_FOUND.
GroupExists(groupName) == groupName \in Groups

\* applyScopeToEmailWhere throws GROUP_FORBIDDEN for a requested group outside
\* a non-empty allowedGroupIds.
GroupForbidden(scope, groupName) ==
    /\ groupName # NoGroupName
    /\ Restricted(scope.allowedGroupIds)
    /\ groupName \notin scope.allowedGroupIds

\* applyScopeToEmailWhere: the where clause it builds, as a predicate on a
\* mailbox id.
ScopeWhere(m, scope, groupName) ==
    /\ IF groupName # NoGroupName
          THEN emailGroup(m) = groupName
          ELSE Restricted(scope.allowedGroupIds)
                   => emailGroup(m) \in scope.allowedGroupIds
    /\ Restricted(scope.allowedEmailIds) => m \in scope.allowedEmailIds

\* getUnusedEmail without the ownership filter (mutation of the query).
UnusedCandidatesNoScope(k, groupName) ==
    {m \in Mailboxes :
        /\ emailStatus[m] = "ACTIVE"
        /\ usages[k][m] = 0
        /\ groupName # NoGroupName => emailGroup(m) = groupName}

\* getUnusedEmail: the rows findFirst selects from.
UnusedCandidates(k, groupName) ==
    {m \in Mailboxes :
        /\ emailStatus[m] = "ACTIVE"
        /\ usages[k][m] = 0
        /\ ScopeWhere(m, apiKeyScope[k], groupName)}

\* getUnusedEmail with orderBy: { id: 'desc' } (mutation).
getUnusedEmailDescending(k, groupName) ==
    IF groupName # NoGroupName /\ ~GroupExists(groupName)
        THEN [code |-> "GROUP_NOT_FOUND", id |-> 0]
    ELSE IF GroupForbidden(apiKeyScope[k], groupName)
        THEN [code |-> "GROUP_FORBIDDEN", id |-> 0]
    ELSE IF UnusedCandidates(k, groupName) = {}
        THEN [code |-> "null", id |-> 0]
    ELSE [code |-> "ok",
          id |-> CHOOSE x \in UnusedCandidates(k, groupName) :
                    \A y \in UnusedCandidates(k, groupName) : x >= y]

\* getUnusedEmail: [code, id]; id is 0 unless code = "ok".
getUnusedEmail(k, groupName) ==
    IF groupName # NoGroupName /\ ~GroupExists(groupName)
        THEN [code |-> "GROUP_NOT_FOUND", id |-> 0]
    ELSE IF GroupForbidden(apiKeyScope[k], groupName)
        THEN [code |-> "GROUP_FORBIDDEN", id |-> 0]
    ELSE IF UnusedCandidates(k, groupName) = {}
        THEN [code |-> "null", id |-> 0]
    ELSE [code |-> "ok", id |-> Min(UnusedCandidates(k, groupName))]

(***************************************************************************)
(* pool.service: markUsed.                                                 *)
(***************************************************************************)
\* The primary key (apiKeyId, emailAccountId) of EmailUsage: create fails with
\* P2002 when a row of the pair exists.
EmailUsagePrimaryKeyViolated(k, m) == usages[k][m] > 0

\* markUsed that takes a unique violation for success (mutation).
markUsedSwallowsConflict(k, m) ==
    IF EmailUsagePrimaryKeyViolated(k, m)
        THEN [code |-> "ok", usages |-> usages]
        ELSE [code |-> "ok",
              usages |-> [usages EXCEPT ![k][m] = @ + 1]]

\* markUsed: inserts the row, or maps P2002 to ALREADY_USED.
markUsed(k, m) ==
    IF EmailUsagePrimaryKeyViolated(k, m)
        THEN [code |-> "ALREADY_USED", usages |-> usages]
        ELSE [code |-> "ok",
              usages |-> [usages EXCEPT ![k][m] = @ + 1]]

(***************************************************************************)
(* mail.routes: /get-email.                                                *)
(***************************************************************************)
IdleCall == [pc |-> "idle", key |-> 0, group |-> 0, i |-> 0, email |-> 0,
             code |-> "none", cancelled |-> FALSE]

\* A request arrives, authenticated as key k, with an optional group name.
GetEmailBegin(c, k, g) ==
    /\ calls[c].pc = "idle"
    /\ calls' = [calls EXCEPT ![c] =
                    [pc |-> "alloc", key |-> k, group |-> g, i |-> 0,
                     email |-> 0, code |-> "none", cancelled |-> FALSE]]
    /\ UNCHANGED <<emailStatus, mailMeta, apiKeyScope, usages, granted, nonPoolVars>>

\* The loop head with the bound i < 2 (mutation).
GetEmailAllocateTwoPasses(c) ==
    /\ calls[c].pc = "alloc"
    /\ LET call == calls[c]
           r == getUnusedEmail(call.key, call.group)
       IN  calls' = [calls EXCEPT ![c] =
              IF call.i >= MaxAttempts - 1
                  THEN [call EXCEPT !.pc = "done", !.email = 0,
                                    !.code = "CONCURRENCY_LIMIT"]
              ELSE IF r.code = "ok"
                  THEN [call EXCEPT !.pc = "mark", !.email = r.id]
              ELSE IF r.code = "null"
                  THEN [call EXCEPT !.pc = "done", !.email = 0,
                                    !.code = "NO_UNUSED_EMAIL"]
              ELSE [call EXCEPT !.pc = "done", !.email = 0, !.code = r.code]]
    /\ UNCHANGED <<emailStatus, mailMeta, apiKeyScope, usages, granted, nonPoolVars>>

\* One pass of the loop head: the bound check and getUnusedEmail.
GetEmailAllocate(c) ==
    /\ calls[c].pc = "alloc"
    /\ LET call == calls[c]
           r == getUnusedEmail(call.key, call.group)
       IN  calls' = [calls EXCEPT ![c] =
              IF call.i >= MaxAttempts
                  THEN [call EXCEPT !.pc = "done", !.email = 0,
                                    !.code = "CONCURRENCY_LIMIT"]
              ELSE IF r.code = "ok"
                  THEN [call EXCEPT !.pc = "mark", !.email = r.id]
              ELSE IF r.code = "null"
                  THEN [call EXCEPT !.pc = "done", !.email = 0,
                                    !.code = "NO_UNUSED_EMAIL"]
              ELSE [call EXCEPT !.pc = "done", !.email = 0, !.code = r.code]]
    /\ UNCHANGED <<emailStatus, mailMeta, apiKeyScope, usages, granted, nonPoolVars>>

\* markUsed succeeded: the response carries the mailbox.
GetEmailMarkOk(c) ==
    /\ calls[c].pc = "mark"
    /\ LET call == calls[c]
           r == markUsed(call.key, call.email)
       IN  /\ r.code = "ok"
           /\ usages' = r.usages
           /\ granted' = [granted EXCEPT ![call.key][call.email] = @ + 1]
           /\ calls' = [calls EXCEPT ![c] =
                           [call EXCEPT !.pc = "done", !.code = "ok"]]
    /\ UNCHANGED <<emailStatus, mailMeta, apiKeyScope, nonPoolVars>>

\* /get-email without the loop: ALREADY_USED is the response (mutation).
GetEmailMarkConflictNoRetry(c) ==
    /\ calls[c].pc = "mark"
    /\ LET call == calls[c]
           r == markUsed(call.key, call.email)
       IN  /\ r.code = "ALREADY_USED"
           /\ usages' = r.usages
           /\ calls' = [calls EXCEPT ![c] =
                           [call EXCEPT !.pc = "done", !.email = 0,
                                        !.code = "ALREADY_USED"]]
    /\ UNCHANGED <<emailStatus, mailMeta, apiKeyScope, granted, nonPoolVars>>

\* markUsed threw ALREADY_USED: continue with the next pass.
GetEmailMarkConflict(c) ==
    /\ calls[c].pc = "mark"
    /\ LET call == calls[c]
           r == markUsed(call.key, call.email)
       IN  /\ r.code = "ALREADY_USED"
           /\ usages' = r.usages
           /\ calls' = [calls EXCEPT ![c] =
                           [call EXCEPT !.pc = "alloc", !.i = @ + 1,
                                        !.email = 0]]
    /\ UNCHANGED <<emailStatus, mailMeta, apiKeyScope, granted, nonPoolVars>>

\* markUsed threw another error (the database failed): it is re-thrown.
GetEmailMarkError(c) ==
    /\ calls[c].pc = "mark"
    /\ calls' = [calls EXCEPT ![c] =
                    [@ EXCEPT !.pc = "done", !.email = 0,
                              !.code = "INTERNAL_ERROR"]]
    /\ UNCHANGED <<emailStatus, mailMeta, apiKeyScope, usages, granted, nonPoolVars>>

\* The client of a request that has no response yet goes away: no handler
\* listens for it, and the request goes on.
GetEmailCancel(c) ==
    /\ calls[c].pc # "idle"
    /\ ~calls[c].cancelled
    /\ calls' = [calls EXCEPT ![c] = [@ EXCEPT !.cancelled = TRUE]]
    /\ UNCHANGED <<emailStatus, mailMeta, apiKeyScope, usages, granted, nonPoolVars>>

\* The response is sent; the slot is free for the next request.
GetEmailReturn(c) ==
    /\ calls[c].pc = "done"
    /\ calls' = [calls EXCEPT ![c] = IdleCall]
    /\ UNCHANGED <<emailStatus, mailMeta, apiKeyScope, usages, granted, nonPoolVars>>

\* A text is a sequence of pieces; the empty sequence is '' and stands for
\* undefined too, which the code tests the same way (!message, x || null).
NoText == <<>>

\* EmailAccount.errorMessage, a nullable column.
NullMessage == [isNull |-> TRUE, text |-> NoText]

\* A mailbox as created: no error message, checked at creation.
NoMeta == [errorMessage |-> NullMessage, lastCheckAt |-> 0]

\* errorMessage || null
orNull(errorMessage) ==
    IF errorMessage = NoText THEN NullMessage
    ELSE [isNull |-> FALSE, text |-> errorMessage]

\* emailService.updateStatus: one update of status, errorMessage and
\* lastCheckAt of the row.
updateStatus(id, status, errorMessage) ==
    [status |-> [emailStatus EXCEPT ![id] = status],
     meta |-> [mailMeta EXCEPT ![id] =
                  [errorMessage |-> orNull(errorMessage), lastCheckAt |-> now]]]

\* emailService.updateStatus as the pool sees it: a fetch marks the mailbox
\* ACTIVE, or ERROR with a message.
UpdateStatus(m, s) ==
    /\ emailStatus[m] # s
    /\ LET r == updateStatus(m, s, IF s = "ERROR" THEN <<"error">> ELSE NoText)
       IN  /\ emailStatus' = r.status
           /\ mailMeta' = r.meta
    /\ UNCHANGED <<apiKeyScope, usages, calls, granted, nonPoolVars>>

(***************************************************************************)
(* The credential rate limiter (plugins/auth: enforceApiKeyRateLimit and   *)
(* authenticateApiKey), for one credential in one server process.          *)
(***************************************************************************)
\* Bounds of the rate model: ticks per minute, the last tick, the largest
\* rateLimit, and the number of authenticateApiKey calls.
MinuteTicks == 2
MaxTime == 3
MaxRate == 2
MaxRequests == 8

Ticks == 0..MaxTime

\* Math.floor(now / 60000)
minuteBucket(t) == t \div MinuteTicks

NoLocalRate == [present |-> FALSE, count |-> 0, resetAt |-> 0]

\* The in-process counter: a window of one minute from its first call.
enforceLocalRateLimitLenient(existing, t, maxPerMinute) ==
    IF ~existing.present \/ t >= existing.resetAt
    THEN [ok |-> TRUE,
          local |-> [present |-> TRUE, count |-> 1, resetAt |-> t + MinuteTicks]]
    ELSE [ok |-> TRUE,
          local |-> [existing EXCEPT !.count = existing.count + 1]]

enforceLocalRateLimit(existing, t, maxPerMinute) ==
    IF ~existing.present \/ t >= existing.resetAt
    THEN [ok |-> TRUE,
          local |-> [present |-> TRUE, count |-> 1, resetAt |-> t + MinuteTicks]]
    ELSE [ok |-> ~(existing.count + 1 > maxPerMinute),
          local |-> [existing EXCEPT !.count = existing.count + 1]]

\* What a call to the shared store can do: answer, or throw at incr or at
\* expire (expire is only called when incr answered 1).
RedisFaults == {"none", "incr", "expire"}

\* enforceApiKeyRateLimit.  With a client, the bucket counter is incremented
\* and a count over the limit throws RATE_LIMIT_EXCEEDED inside the try block
\* whose catch is bare: the error is swallowed like a store failure, and the
\* call goes on to the in-process counter.  count is what incr answered (0
\* when it was not called or threw).
enforceApiKeyRateLimit(t, maxPerMinute, fault) ==
    LET bucket == minuteBucket(t)
        count == rateRedis[bucket] + 1
        incremented == [rateRedis EXCEPT ![bucket] = count]
        fallback(redis, c) ==
            LET r == enforceLocalRateLimit(rateLocal, t, maxPerMinute)
            IN  [ok |-> r.ok, redis |-> redis, local |-> r.local, count |-> c]
    IN  IF ~redisConfigured THEN fallback(rateRedis, 0)
        ELSE IF fault = "incr" THEN fallback(rateRedis, 0)
        ELSE IF count = 1 /\ fault = "expire" THEN fallback(incremented, count)
        ELSE IF count > maxPerMinute THEN fallback(incremented, count)
        ELSE [ok |-> TRUE, redis |-> incremented, local |-> rateLocal,
              count |-> count]

\* Whether the call made the shared store throw.
redisThrew(t, fault) ==
    /\ redisConfigured
    /\ \/ fault = "incr"
       \/ fault = "expire" /\ rateRedis[minuteBucket(t)] = 0

\* The credentials a request can present: no header, an unknown key, or the
\* key of the model with its status and expiry.
Presented ==
    {p \in [given : BOOLEAN, known : BOOLEAN, active : BOOLEAN, expired : BOOLEAN] :
        /\ ~p.given => ~p.known
        /\ ~p.known => (p.active /\ ~p.expired)}

NoPresented == [given |-> FALSE, known |-> FALSE, active |-> TRUE, expired |-> FALSE]

NoRateCall == [seq |-> 0, presented |-> NoPresented, code |-> "none",
               limited |-> FALSE, count |-> 0, nth |-> 0, bucket |-> 0]

\* ApiKey.usageCount and lastUsedAt before the first request.
NoUsage == [usageCount |-> 0, lastUsedAt |-> 0]

\* An update that counts the request twice (mutation).
updateUsageTwice(u, t) == [usageCount |-> u.usageCount + 2, lastUsedAt |-> t]

\* prisma.apiKey.update: usageCount: { increment: 1 }, lastUsedAt: new Date()
updateUsage(u, t) == [usageCount |-> u.usageCount + 1, lastUsedAt |-> t]

\* Calls that reached the limiter in the bucket of the last one.
nthInBucket(t) ==
    IF rateLast.nth > 0 /\ rateLast.bucket = minuteBucket(t)
    THEN rateLast.nth + 1 ELSE 1

\* authenticateApiKey: the checks in the order of the code, then the limiter,
\* then the usage update and request.apiKey.
AuthenticateApiKey(p, fault) ==
    /\ rateLast.seq < MaxRequests
    /\ fault # "none" => (redisConfigured /\ p.known /\ p.active /\ ~p.expired)
    /\ LET reject(c) ==
               /\ rateLast' = [rateLast EXCEPT !.seq = rateLast.seq + 1,
                                               !.presented = p,
                                               !.code = c, !.limited = FALSE,
                                               !.count = 0]
               /\ UNCHANGED <<redisFailed, rateRedis, rateLocal, admitted, usage>>
       IN  IF ~p.given THEN reject("UNAUTHORIZED")
           ELSE IF ~p.known THEN reject("INVALID_API_KEY")
           ELSE IF ~p.active THEN reject("API_KEY_DISABLED")
           ELSE IF p.expired THEN reject("API_KEY_EXPIRED")
           ELSE LET r == enforceApiKeyRateLimit(now, rateLimit, fault)
                IN  /\ rateRedis' = r.redis
                    /\ rateLocal' = r.local
                    /\ redisFailed' = (redisFailed \/ redisThrew(now, fault))
                    /\ admitted' = IF r.ok
                                   THEN [admitted EXCEPT ![now] = admitted[now] + 1]
                                   ELSE admitted
                    /\ usage' = IF r.ok THEN updateUsage(usage, now) ELSE usage
                    /\ rateLast' = [seq |-> rateLast.seq + 1,
                                    presented |-> p,
                                    code |-> IF r.ok THEN "ok"
                                             ELSE "RATE_LIMIT_EXCEEDED",
                                    limited |-> TRUE,
                                    count |-> r.count,
                                    nth |-> nthInBucket(now),
                                    bucket |-> minuteBucket(now)]
    /\ UNCHANGED <<nonRateVars, now, redisConfigured, rateLimit>>

RateIdle ==
    /\ rateLimit = 1
    /\ rateRedis = [b \in 0..minuteBucket(MaxTime) |-> 0]
    /\ rateLocal = NoLocalRate
    /\ admitted = [t \in Ticks |-> 0]
    /\ rateLast = NoRateCall
    /\ usage = NoUsage

(***************************************************************************)
(* Admin login and its lock-out (modules/auth/auth.service.ts), for one    *)
(* (username, ip) key in one server process.                               *)
(***************************************************************************)
\* Bounds of the login model: LOCK_SECONDS in ticks, the largest
\* ADMIN_LOGIN_MAX_ATTEMPTS, and the number of login calls.
LockTicks == 2
MaxLoginAttempts == 3
MaxLogins == 4

\* ATTEMPT_WINDOW_SECONDS = LOCK_SECONDS
AttemptWindowTicks == LockTicks

\* The two keys of the shared store: the attempt counter (attempts = 0: no
\* key; attemptsExpireAt = 0: no expiry set) and the lock (lockExpireAt = 0:
\* no key).
NoLoginRedis == [attempts |-> 0, attemptsExpireAt |-> 0, lockExpireAt |-> 0]

\* The keys of the shared store that have not expired at t.
liveLoginRedis(redis, t) ==
    [attempts |-> IF redis.attemptsExpireAt # 0 /\ redis.attemptsExpireAt <= t
                  THEN 0 ELSE redis.attempts,
     attemptsExpireAt |-> IF redis.attemptsExpireAt <= t
                          THEN 0 ELSE redis.attemptsExpireAt,
     lockExpireAt |-> IF redis.lockExpireAt <= t THEN 0 ELSE redis.lockExpireAt]

\* localLoginAttemptStore.get(cacheKey)
NoLoginLocal == [present |-> FALSE, count |-> 0, resetAt |-> 0, lockedUntil |-> 0]

\* Whether a lock is held for the key, in either store.
lockActive(redis, local, t) ==
    \/ redis.lockExpireAt > t
    \/ local.present /\ local.lockedUntil > t

\* getLockRemainingSeconds: the remaining lock time and the in-process entry
\* it leaves behind.
getLockRemainingSecondsBlind(redis, local, t, ttlThrows) ==
    [remaining |-> 0, local |-> local]

getLockRemainingSeconds(redis, local, t, ttlThrows) ==
    IF redisConfigured /\ ~ttlThrows /\ redis.lockExpireAt > t
    THEN [remaining |-> redis.lockExpireAt - t, local |-> local]
    ELSE IF ~local.present THEN [remaining |-> 0, local |-> local]
    ELSE IF local.lockedUntil > t
    THEN [remaining |-> local.lockedUntil - t, local |-> local]
    ELSE IF local.resetAt <= t THEN [remaining |-> 0, local |-> NoLoginLocal]
    ELSE [remaining |-> 0, local |-> [local EXCEPT !.lockedUntil = 0]]

\* clearLoginAttempts
clearLoginAttemptsLocalOnly(redis, local, delThrows) ==
    [redis |-> redis, local |-> NoLoginLocal]

clearLoginAttempts(redis, local, delThrows) ==
    [redis |-> IF redisConfigured /\ ~delThrows THEN NoLoginRedis ELSE redis,
     local |-> NoLoginLocal]

\* The in-process half of recordLoginFailure.
recordLocalLoginFailure(local, t, maxAttempts) ==
    IF ~local.present \/ local.resetAt <= t
    THEN [lock |-> 0,
          local |-> [present |-> TRUE, count |-> 1,
                     resetAt |-> t + AttemptWindowTicks, lockedUntil |-> 0]]
    ELSE IF local.lockedUntil > t
    THEN [lock |-> local.lockedUntil - t, local |-> local]
    ELSE IF local.count + 1 >= maxAttempts
    THEN [lock |-> LockTicks,
          local |-> [local EXCEPT !.count = 0, !.lockedUntil = t + LockTicks]]
    ELSE [lock |-> 0, local |-> [local EXCEPT !.count = local.count + 1]]

\* What the shared store can do during recordLoginFailure: answer, or throw
\* at incr, at expire (called when incr answered 1), at set or at del (called
\* when the count reached the maximum).
LoginFaults == {"none", "incr", "expire", "set", "del"}

\* recordLoginFailure: the lock time it returns and the stores it leaves.
recordLoginFailure(stored, local, t, maxAttempts, fault) ==
    LET redis == liveLoginRedis(stored, t)
        count == redis.attempts + 1
        counted == [redis EXCEPT !.attempts = count]
        expiring == IF count = 1
                    THEN [counted EXCEPT !.attemptsExpireAt = t + AttemptWindowTicks]
                    ELSE counted
        locked == [expiring EXCEPT !.lockExpireAt = t + LockTicks]
        fallback(r) ==
            LET l == recordLocalLoginFailure(local, t, maxAttempts)
            IN  [lock |-> l.lock, redis |-> r, local |-> l.local]
    IN  IF ~redisConfigured THEN fallback(redis)
        ELSE IF fault = "incr" THEN fallback(redis)
        ELSE IF count = 1 /\ fault = "expire" THEN fallback(counted)
        ELSE IF count >= maxAttempts
        THEN IF fault = "set" THEN fallback(expiring)
             ELSE IF fault = "del" THEN fallback(locked)
             ELSE [lock |-> LockTicks,
                   redis |-> [locked EXCEPT !.attempts = 0, !.attemptsExpireAt = 0],
                   local |-> local]
        ELSE [lock |-> 0, redis |-> expiring, local |-> local]

\* Whether recordLoginFailure made the shared store throw.
recordThrew(stored, t, maxAttempts, fault) ==
    /\ redisConfigured
    /\ \/ fault = "incr"
       \/ fault = "expire" /\ liveLoginRedis(stored, t).attempts = 0
       \/ fault \in {"set", "del"}
            /\ liveLoginRedis(stored, t).attempts + 1 >= maxAttempts

\* The account the key's username names: its Admin row (status NONE: no row),
\* the state of its two-factor secret, whether the username is
\* env.ADMIN_USERNAME, and whether env.ADMIN_2FA_SECRET is set.
AdminAccounts ==
    {a \in [status : {"NONE", "ACTIVE", "DISABLED"},
            twoFactor : {"off", "on", "nosecret", "corrupt"},
            isDefault : BOOLEAN, legacy2Fa : BOOLEAN] :
        /\ a.status = "NONE" => a.twoFactor = "off"
        /\ a.status # "NONE" => (~a.isDefault /\ ~a.legacy2Fa)
        /\ a.status = "DISABLED" => a.twoFactor = "off"
        /\ a.legacy2Fa => a.isDefault}

\* The otp of a request: absent, six digits that are not the code of the
\* secret, or the code of the secret.
OtpInputs == {"none", "wrong", "valid"}

\* verifyTotpCode: a missing token never verifies.
verifyTotpCodeLenient(token) == token # "wrong"

verifyTotpCode(token) == token = "valid"

\* A login request: whether its password is the account's (or
\* env.ADMIN_PASSWORD), its otp, and which calls to the shared store throw
\* (ttl of the lock check; one call of recordLoginFailure, or the del of
\* clearLoginAttempts).
LoginInputs ==
    {in \in [password : BOOLEAN, otp : OtpInputs, ttlThrows : BOOLEAN,
             fault : LoginFaults] :
        ~in.password => in.otp = "valid"}

NoLogin == [seq |-> 0, at |-> 0, password |-> FALSE, code |-> "none",
            otp |-> "none", verified |-> FALSE, token |-> FALSE,
            ttlThrew |-> FALSE, nth |-> 0]

\* No counted failure since the last success; cleared is the length of the
\* run that the last successful login ended.
NoStreak == [n |-> 0, start |-> 0, cleared |-> 0]

\* The place of a counted failure at t in the run of consecutive counted
\* failures of one attempt window.
nextInStreak(t) ==
    IF loginStreak.n = 0 \/ t >= loginStreak.start + AttemptWindowTicks
    THEN [loginStreak EXCEPT !.n = 1, !.start = t]
    ELSE [loginStreak EXCEPT !.n = loginStreak.n + 1]

\* authService.login
Login(in) ==
    /\ loginLast.seq < MaxLogins
    /\ ~redisConfigured => (~in.ttlThrows /\ in.fault = "none")
    /\ LET L == getLockRemainingSeconds(loginRedis, loginLocal, now, in.ttlThrows)
           last(code, verified, token, nth) ==
               [seq |-> loginLast.seq + 1, at |-> now,
                password |-> in.password, code |-> code,
                otp |-> in.otp, verified |-> verified, token |-> token,
                ttlThrew |-> in.ttlThrows, nth |-> nth]
           reject(code, verified) ==
               /\ loginLast' = last(code, verified, FALSE, 0)
               /\ loginLocal' = L.local
               /\ redisFailed' = (redisFailed \/ in.ttlThrows)
               /\ UNCHANGED <<loginRedis, loginAdmin, loginStreak>>
           fail(code) ==
               LET R == recordLoginFailure(loginRedis, L.local, now,
                                           maxLoginAttempts, in.fault)
                   s == nextInStreak(now)
               IN  /\ loginRedis' = R.redis
                   /\ loginLocal' = R.local
                   /\ loginLast' = last(IF R.lock > 0 THEN "ACCOUNT_LOCKED" ELSE code,
                                        TRUE, FALSE, s.n)
                   /\ loginStreak' = IF R.lock > 0 THEN NoStreak ELSE s
                   /\ redisFailed' =
                          (redisFailed \/ in.ttlThrows
                             \/ recordThrew(loginRedis, now, maxLoginAttempts, in.fault))
                   /\ UNCHANGED loginAdmin
           succeed(admin) ==
               LET C == clearLoginAttempts(loginRedis, L.local, in.fault = "del")
               IN  /\ loginRedis' = C.redis
                   /\ loginLocal' = C.local
                   /\ loginLast' = last("ok", TRUE, TRUE, 0)
                   /\ loginStreak' = [NoStreak EXCEPT !.cleared = loginStreak.n]
                   /\ loginAdmin' = admin
                   /\ redisFailed' = (redisFailed \/ in.ttlThrows \/ in.fault = "del")
       IN  IF L.remaining > 0 THEN reject("ACCOUNT_LOCKED", FALSE)
           ELSE IF loginAdmin.status = "NONE"
           THEN IF loginAdmin.isDefault /\ in.password
                THEN IF loginAdmin.legacy2Fa /\ ~verifyTotpCode(in.otp)
                     THEN fail("INVALID_OTP")
                     ELSE succeed([loginAdmin EXCEPT !.status = "ACTIVE"])
                ELSE fail("INVALID_CREDENTIALS")
           ELSE IF loginAdmin.status # "ACTIVE" THEN reject("ACCOUNT_DISABLED", FALSE)
           ELSE IF ~in.password THEN fail("INVALID_CREDENTIALS")
           ELSE IF loginAdmin.twoFactor = "corrupt"
           THEN reject("TWO_FACTOR_SECRET_INVALID", TRUE)
           ELSE IF loginAdmin.twoFactor = "on" /\ ~verifyTotpCode(in.otp)
           THEN fail("INVALID_OTP")
           ELSE succeed(loginAdmin)
    /\ UNCHANGED <<nonLoginVars, now, redisConfigured, maxLoginAttempts>>

LoginIdle ==
    /\ maxLoginAttempts = 1
    /\ loginAdmin = [status |-> "ACTIVE", twoFactor |-> "off",
                     isDefault |-> FALSE, legacy2Fa |-> FALSE]
    /\ loginRedis = NoLoginRedis
    /\ loginLocal = NoLoginLocal
    /\ loginLast = NoLogin
    /\ loginStreak = NoStreak

(***************************************************************************)
(* Concurrent logins on one key: authService.login awaits the account      *)
(* lookup and the password check between its lock check and the write of   *)
(* its outcome, and other calls run meanwhile.  The account is ACTIVE      *)
(* without two-factor, and no call to the shared store throws.             *)
(***************************************************************************)
\* Bound of the concurrent login model: the number of calls.
NumLoginCalls == 3

LoginCallIds == 1..NumLoginCalls

IdleLoginCall == [pc |-> "idle", password |-> FALSE, code |-> "none"]

\* What the concurrent login calls leave alone.
nonLoginRaceVars == <<poolVars, rateVars, tokenVars, retentionVars, permVars,
                      lastVars, twoFaVars, mailboxVars, cryptoVars, redisConfigured,
                      redisFailed, maxLoginAttempts, loginAdmin, loginLast,
                      loginStreak,
    loginPairVars,
    totpVars,
    parseVars,
    imapVars>>

\* login up to the await of prisma.admin.findUnique: the lock check.
LoginCheckLock(c, password) ==
    /\ loginCalls[c].pc = "idle"
    /\ LET L == getLockRemainingSeconds(loginRedis, loginLocal, now, FALSE)
       IN  /\ loginLocal' = L.local
           /\ loginCalls' = [loginCalls EXCEPT ![c] =
                  IF L.remaining > 0
                  THEN [pc |-> "done", password |-> password,
                        code |-> "ACCOUNT_LOCKED"]
                  ELSE [pc |-> "checked", password |-> password,
                        code |-> "none"]]
    /\ UNCHANGED <<nonLoginRaceVars, now, loginRedis>>

\* login after verifyPassword answered false: recordLoginFailure.
LoginRecordFailure(c) ==
    /\ loginCalls[c].pc = "checked"
    /\ ~loginCalls[c].password
    /\ LET R == recordLoginFailure(loginRedis, loginLocal, now,
                                   maxLoginAttempts, "none")
       IN  /\ loginRedis' = R.redis
           /\ loginLocal' = R.local
           /\ loginCalls' = [loginCalls EXCEPT ![c] =
                  [@ EXCEPT !.pc = "done",
                            !.code = IF R.lock > 0 THEN "ACCOUNT_LOCKED"
                                     ELSE "INVALID_CREDENTIALS"]]
    /\ UNCHANGED <<nonLoginRaceVars, now>>

\* login after verifyPassword answered true: clearLoginAttempts.
LoginClearAttempts(c) ==
    /\ loginCalls[c].pc = "checked"
    /\ loginCalls[c].password
    /\ LET C == clearLoginAttempts(loginRedis, loginLocal, FALSE)
       IN  /\ loginRedis' = C.redis
           /\ loginLocal' = C.local
           /\ loginCalls' = [loginCalls EXCEPT ![c] =
                  [@ EXCEPT !.pc = "done", !.code = "ok"]]
    /\ UNCHANGED <<nonLoginRaceVars, now>>

LoginRaceIdle == loginCalls = [c \in LoginCallIds |-> IdleLoginCall]

(***************************************************************************)
(* One sequence of login attempts on one key, run on a server with the     *)
(* shared store (loginRedis, loginLocal) and on a server without it (the   *)
(* in-process store kept in loginPair.store).  The account is ACTIVE       *)
(* without two-factor, and no call to the shared store throws.             *)
(***************************************************************************)
NoOutcome == [code |-> "none", lockedUntil |-> 0]

NoLoginPair == [seq |-> 0, shared |-> NoOutcome, inProcess |-> NoOutcome,
                store |-> NoLoginLocal]

\* What the paired logins leave alone.
nonLoginPairVars == <<poolVars, rateVars, tokenVars, retentionVars, permVars,
                      lastVars, twoFaVars, mailboxVars, cryptoVars,
                      loginRaceVars, redisConfigured, redisFailed,
                      maxLoginAttempts, loginAdmin, loginLast, loginStreak,
    totpVars,
    parseVars,
    imapVars>>

\* login of a server without the shared store (getRedis() returns null), on
\* the in-process entry local: the lock check, then clearLoginAttempts or
\* the in-process half of recordLoginFailure.
loginInProcess(local, password, t, maxAttempts) ==
    LET L == getLockRemainingSeconds(NoLoginRedis, local, t, FALSE)
        R == recordLocalLoginFailure(L.local, t, maxAttempts)
    IN  IF L.remaining > 0 THEN [code |-> "ACCOUNT_LOCKED", local |-> L.local]
        ELSE IF password THEN [code |-> "ok", local |-> NoLoginLocal]
        ELSE [code |-> IF R.lock > 0 THEN "ACCOUNT_LOCKED"
                       ELSE "INVALID_CREDENTIALS",
              local |-> R.local]

\* login of a server with the shared store, on its two stores.
loginShared(redis, local, password, t, maxAttempts) ==
    LET L == getLockRemainingSeconds(redis, local, t, FALSE)
        R == recordLoginFailure(redis, L.local, t, maxAttempts, "none")
        C == clearLoginAttempts(redis, L.local, FALSE)
    IN  IF L.remaining > 0
        THEN [code |-> "ACCOUNT_LOCKED", redis |-> redis, local |-> L.local]
        ELSE IF password THEN [code |-> "ok", redis |-> C.redis, local |-> C.local]
        ELSE [code |-> IF R.lock > 0 THEN "ACCOUNT_LOCKED"
                       ELSE "INVALID_CREDENTIALS",
              redis |-> R.redis, local |-> R.local]

\* One attempt at now, on both servers.
LoginPair(password) ==
    /\ loginPair.seq < MaxLogins
    /\ LET S == loginShared(loginRedis, loginLocal, password, now,
                            maxLoginAttempts)
           P == loginInProcess(loginPair.store, password, now, maxLoginAttempts)
       IN  /\ loginRedis' = S.redis
           /\ loginLocal' = S.local
           /\ loginPair' =
                  [seq |-> loginPair.seq + 1,
                   shared |->
                      [code |-> S.code,
                       lockedUntil |->
                          now + getLockRemainingSeconds(S.redis, S.local, now,
                                                        FALSE).remaining],
                   inProcess |->
                      [code |-> P.code,
                       lockedUntil |->
                          now + getLockRemainingSeconds(NoLoginRedis, P.local,
                                                        now, FALSE).remaining],
                   store |-> P.local]
    /\ UNCHANGED <<nonLoginPairVars, now>>

LoginPairIdle == loginPair = NoLoginPair

(***************************************************************************)
(* The TOTP verifier (modules/auth/totp.ts).  Time is counted in ticks, a   *)
(* time step of 30 seconds is StepTicks ticks.  A secret is known by the   *)
(* codes HMAC-SHA1 yields with it: a function from the counter to a code,  *)
(* about which nothing is assumed.  A token is a string of characters.     *)
(***************************************************************************)
\* Bounds of the TOTP model: the ticks of a time step, the steps, the
\* largest window asked for and the last digits a code may have.
StepTicks == 2
MaxStep == 6
MaxWindowAsked == 2
NumCodes == 2

\* Math.min(window, 5)
MaxSafeWindow == 5

\* /^\d{6}$/
TokenDigits == 6

TotpSteps == 0..MaxStep

DecimalDigits == <<"0", "1", "2", "3", "4", "5", "6", "7", "8", "9">>

\* The codes: six digits, of which the last one varies.
TotpCodes == {<<"0", "0", "0", "0", "0", DecimalDigits[n]>> : n \in 1..NumCodes}

TotpSecrets == [TotpSteps -> TotpCodes]

\* What a request carries as otp when it is not a code: nothing, '', five
\* or seven digits, six characters that are not all digits.
MissingToken == <<"undefined">>

MalformedTokens ==
    {MissingToken, <<>>, <<"0", "0", "0", "0", "0">>,
     <<"0", "0", "0", "0", "0", "0", "0">>, <<"0", "0", "0", "0", "0", "a">>,
     <<" ", "0", "0", "0", "0", "0">>}

\* !token || !/^\d{6}$/.test(token)
tokenRejected(token) ==
    \/ token = MissingToken
    \/ token = <<>>
    \/ ~(/\ Len(token) = TokenDigits
          /\ \A i \in 1..Len(token) :
                \E n \in 1..Len(DecimalDigits) : token[i] = DecimalDigits[n])

\* generateHotpCode(secret, step)
generateHotpCode(secret, step) == secret[step]

\* Math.floor(timestampMs / 1000 / 30)
currentStepAt(timestamp) == timestamp \div StepTicks

\* generateTotpCodeAt
generateTotpCodeAt(secret, timestamp) ==
    generateHotpCode(secret, currentStepAt(timestamp))

\* Math.max(0, Math.min(window, 5))
safeWindowOf(window) ==
    IF window > MaxSafeWindow THEN MaxSafeWindow
    ELSE IF window < 0 THEN 0 ELSE window

\* verifyTotpCode that looks at the current and the earlier steps only
\* (mutation).
verifyTotpCodeAtPastOnly(secret, token, window, timestamp) ==
    /\ ~tokenRejected(token)
    /\ \E offset \in (-safeWindowOf(window))..0 :
          generateHotpCode(secret, currentStepAt(timestamp) + offset) = token

\* verifyTotpCode(secretBase32, token, window, timestampMs)
verifyTotpCodeAt(secret, token, window, timestamp) ==
    /\ ~tokenRejected(token)
    /\ \E offset \in (-safeWindowOf(window))..safeWindowOf(window) :
          generateHotpCode(secret, currentStepAt(timestamp) + offset) = token

\* The times at which a code is generated and verified: those whose steps
\* have MaxWindowAsked steps on either side.
TotpTimes == (MaxWindowAsked * StepTicks)..((MaxStep - MaxWindowAsked + 1) * StepTicks - 1)

NoTotp == [done |-> FALSE, secret |-> <<>>, t |-> 0, at |-> 0, window |-> 0,
           token |-> MissingToken, result |-> FALSE]

\* What verifyTotpCode leaves alone.
nonTotpVars == <<poolVars, rateVars, loginVars, tokenVars, retentionVars, permVars,
                 now, redisConfigured, redisFailed, lastVars, twoFaVars,
                 mailboxVars, cryptoVars, loginRaceVars, loginPairVars,
    parseVars,
    imapVars>>

\* verifyTotpCode(secret, token, window, at), where token is the code
\* generated at t or a malformed token.
VerifyTotp(secret, t, at, window, token) ==
    /\ totpLast = NoTotp
    /\ totpLast' = [done |-> TRUE, secret |-> secret, t |-> t, at |-> at,
                    window |-> window, token |-> token,
                    result |-> verifyTotpCodeAt(secret, token, window, at)]
    /\ UNCHANGED nonTotpVars

TotpIdle == totpLast = NoTotp

(***************************************************************************)
(* The OAuth token cache (modules/mail/mail.service.ts: getGraphAccessToken *)
(* and getImapAccessToken over getCache / setCache).                       *)
(***************************************************************************)
\* Bounds of the token model: the addresses, and the largest expires_in - 60
\* in ticks.
NumAddresses == 1
MaxTtl == 2

Addresses == 1..NumAddresses

\* Scope strings, as sequences of pieces: "G/" is the resource prefix
\* https://graph.microsoft.com/, "Mail.Read" + "Write" spells Mail.ReadWrite.
MailReadScope == <<"G/", "Mail.Read">>

ScopeTexts ==
    {<<>>,
     <<"G/", "Mail.Read">>,
     <<"G/", "Mail.Read", "Write">>,
     <<"G/", "Mail.Send">>,
     <<"Mail.Read">>,
     <<"G/", "User.Read", " ", "G/", "Mail.Read">>}

\* String.prototype.includes
includes(text, part) ==
    \E i \in 1..(Len(text) - Len(part) + 1) :
        SubSeq(text, i, i + Len(part) - 1) = part

\* A response of the token endpoint: response.ok, whether data.access_token
\* is a string, data.scope ('' when it is not a string), and
\* (expires_in or 3600) - 60 in ticks.  The answers that carry no token come
\* with no scope or with the Mail.Read scope, and one time to live.
TokenResponses ==
    {r \in [ok : BOOLEAN, hasToken : BOOLEAN, scope : ScopeTexts, ttl : 1..MaxTtl] :
        (~r.ok \/ ~r.hasToken) => (r.scope \in {<<>>, MailReadScope} /\ r.ttl = 1)}

\* An access token stands for the exchange that returned it: the call that
\* made it and the scope string of its response.
NoToken == [kind |-> "none", scope |-> <<>>]

NoEntry == [token |-> NoToken, expireAt |-> 0]

\* getCache: the token under the key (NoToken for none).
getCache(cache, key) == cache[key].token

\* setCache: the entry under the key, with its time to live.
setCache(cache, key, token, ttl, t) ==
    [cache EXCEPT ![key] = [token |-> token, expireAt |-> t + ttl]]

\* The entries that are left at t: the shared store drops an entry when its
\* time to live is over.
expireCache(cache, t) ==
    [key \in DOMAIN cache |->
        IF cache[key].token # NoToken /\ cache[key].expireAt <= t
        THEN NoEntry ELSE cache[key]]

\* getGraphAccessToken after a cache miss: what it returns and the cache it
\* leaves, when the endpoint answers resp.
exchangeGraphTokenAlwaysCaching(cache, key, resp, t) ==
    LET accessToken == [kind |-> "graph", scope |-> resp.scope]
    IN  IF ~resp.ok \/ ~resp.hasToken
        THEN [token |-> NoToken, hasMailRead |-> FALSE, cache |-> cache]
        ELSE [token |-> accessToken,
              hasMailRead |-> includes(resp.scope, MailReadScope),
              cache |-> setCache(cache, key, accessToken, resp.ttl, t)]

exchangeGraphToken(cache, key, resp, t) ==
    LET accessToken == [kind |-> "graph", scope |-> resp.scope]
        hasMailRead == includes(resp.scope, MailReadScope)
    IN  IF ~resp.ok \/ ~resp.hasToken
        THEN [token |-> NoToken, hasMailRead |-> FALSE, cache |-> cache]
        ELSE [token |-> accessToken,
              hasMailRead |-> hasMailRead,
              cache |-> IF hasMailRead
                        THEN setCache(cache, key, accessToken, resp.ttl, t)
                        ELSE cache]

\* getImapAccessToken after a cache miss.
exchangeImapToken(cache, key, resp, t) ==
    LET accessToken == [kind |-> "imap", scope |-> <<>>]
    IN  IF ~resp.ok \/ ~resp.hasToken
        THEN [token |-> NoToken, cache |-> cache]
        ELSE [token |-> accessToken,
              cache |-> setCache(cache, key, accessToken, resp.ttl, t)]

NoResponse == [ok |-> FALSE, hasToken |-> FALSE, scope |-> <<>>]

NoTokenCall == [kind |-> "none", address |-> 0, cached |-> FALSE,
                resp |-> NoResponse, token |-> NoToken, hasMailRead |-> FALSE]

\* mailService.getGraphAccessToken
GetGraphAccessToken(e, resp) ==
    /\ UNCHANGED <<nonTokenVars, now, imapCache>>
    /\ LET cachedToken == getCache(graphCache, e)
           x == exchangeGraphToken(graphCache, e, resp, now)
       IN  IF cachedToken # NoToken
           THEN /\ tokenLast' = [kind |-> "graph", address |-> e, cached |-> TRUE,
                                 resp |-> NoResponse, token |-> cachedToken,
                                 hasMailRead |-> TRUE]
                /\ UNCHANGED graphCache
           ELSE /\ graphCache' = x.cache
                /\ tokenLast' = [kind |-> "graph", address |-> e, cached |-> FALSE,
                                 resp |-> [ok |-> resp.ok, hasToken |-> resp.hasToken,
                                           scope |-> resp.scope],
                                 token |-> x.token, hasMailRead |-> x.hasMailRead]

\* mailService.getImapAccessToken
GetImapAccessToken(e, resp) ==
    /\ UNCHANGED <<nonTokenVars, now, graphCache>>
    /\ LET cachedToken == getCache(imapCache, e)
           x == exchangeImapToken(imapCache, e, resp, now)
       IN  IF cachedToken # NoToken
           THEN /\ tokenLast' = [kind |-> "imap", address |-> e, cached |-> TRUE,
                                 resp |-> NoResponse, token |-> cachedToken,
                                 hasMailRead |-> FALSE]
                /\ UNCHANGED imapCache
           ELSE /\ imapCache' = x.cache
                /\ tokenLast' = [kind |-> "imap", address |-> e, cached |-> FALSE,
                                 resp |-> [ok |-> resp.ok, hasToken |-> resp.hasToken,
                                           scope |-> resp.scope],
                                 token |-> x.token, hasMailRead |-> FALSE]

TokenIdle ==
    /\ graphCache = [e \in Addresses |-> NoEntry]
    /\ imapCache = [e \in Addresses |-> NoEntry]
    /\ tokenLast = NoTokenCall

(***************************************************************************)
(* The API log retention job (runApiLogRetentionOnce) and the inserts of   *)
(* mailService.logApiCall, in one server process.                          *)
(***************************************************************************)
\* Bound of the retention model: API_LOG_RETENTION_DAYS in ticks.
RetentionTicks == 1

\* cutoff = new Date(Date.now() - env.API_LOG_RETENTION_DAYS * 24 * 60 * 60 * 1000)
retentionCutoffLate(t) == t - RetentionTicks - 1

retentionCutoff(t) == t - RetentionTicks

\* prisma.apiLog.deleteMany({ where: { createdAt: { lt: cutoff } } }): the
\* rows that stay.
deleteManyBefore(logs, cutoff) == {createdAt \in logs : ~(createdAt < cutoff)}

\* inFlight counts the deleteMany calls that are awaited, skipped tells that
\* a call of runApiLogRetentionOnce returned at the flag during the execution.
NoRetentionJob ==
    [startedAt |-> 0, cutoff |-> 0, raced |-> FALSE, inFlight |-> 0,
     skipped |-> FALSE]

NoRetention == [startedAt |-> 0, outcome |-> "none", removed |-> FALSE,
                raced |-> FALSE]

\* mailService.logApiCall: a row with createdAt = now (a failed insert is
\* caught and changes nothing).
LogApiCall ==
    /\ apiLogs' = apiLogs \cup {now}
    /\ retentionJob' = IF running THEN [retentionJob EXCEPT !.raced = TRUE]
                       ELSE retentionJob
    /\ UNCHANGED <<nonRetentionVars, now, running, retentionLast>>

\* runApiLogRetentionOnce without the test of the flag (mutation).
RetentionBeginUnguarded ==
    /\ running' = TRUE
    /\ retentionJob' = [startedAt |-> now, cutoff |-> retentionCutoff(now),
                        raced |-> FALSE,
                        inFlight |-> retentionJob.inFlight + 1,
                        skipped |-> FALSE]
    /\ UNCHANGED <<nonRetentionVars, now, apiLogs, retentionLast>>

\* runApiLogRetentionOnce up to the await of deleteMany: a call that finds
\* the flag set returns, another sets it and computes the cutoff.
RetentionBegin ==
    /\ IF running
       THEN /\ retentionJob' = [retentionJob EXCEPT !.skipped = TRUE]
            /\ UNCHANGED running
       ELSE /\ running' = TRUE
            /\ retentionJob' = [startedAt |-> now, cutoff |-> retentionCutoff(now),
                                raced |-> FALSE,
                                inFlight |-> retentionJob.inFlight + 1,
                                skipped |-> FALSE]
    /\ UNCHANGED <<nonRetentionVars, now, apiLogs, retentionLast>>

\* deleteMany answers: the rows before the cutoff are gone, and finally
\* releases the flag.
RetentionDeleted ==
    /\ retentionJob.inFlight > 0
    /\ apiLogs' = deleteManyBefore(apiLogs, retentionJob.cutoff)
    /\ running' = FALSE
    /\ retentionLast' = [startedAt |-> retentionJob.startedAt,
                         outcome |-> "deleted",
                         removed |-> (apiLogs' # apiLogs),
                         raced |-> retentionJob.raced]
    /\ retentionJob' = [NoRetentionJob EXCEPT
                            !.inFlight = retentionJob.inFlight - 1]
    /\ UNCHANGED <<nonRetentionVars, now>>

\* deleteMany throws: the error is logged, and finally releases the flag.
RetentionFailed ==
    /\ retentionJob.inFlight > 0
    /\ running' = FALSE
    /\ retentionLast' = [startedAt |-> retentionJob.startedAt,
                         outcome |-> "failed", removed |-> FALSE,
                         raced |-> retentionJob.raced]
    /\ retentionJob' = [NoRetentionJob EXCEPT
                            !.inFlight = retentionJob.inFlight - 1]
    /\ UNCHANGED <<nonRetentionVars, now, apiLogs>>

RetentionIdle ==
    /\ apiLogs = {}
    /\ running = FALSE
    /\ retentionJob = NoRetentionJob
    /\ retentionLast = NoRetention

(***************************************************************************)
(* The permission check (plugins/api-permissions.ts).  Strings are         *)
(* sequences of pieces: words in lower or upper case, '_', '-', ' ', '*'.  *)
(***************************************************************************)
\* Bound of the permission model: the entries of a permission map.
MaxPermissionEntries == 2

\* String.prototype.toLowerCase, piece by piece.
lowerPiece(c) ==
    CASE c = "MAIL" -> "mail"
      [] c = "ALL" -> "all"
      [] OTHER -> c

toLowerCase(s) == [i \in 1..Len(s) |-> lowerPiece(s[i])]

\* String.prototype.trim
RECURSIVE trimStart(_)
trimStart(s) == IF s # <<>> /\ Head(s) = " " THEN trimStart(Tail(s)) ELSE s

RECURSIVE trimEnd(_)
trimEnd(s) ==
    IF s # <<>> /\ s[Len(s)] = " " THEN trimEnd(SubSeq(s, 1, Len(s) - 1)) ELSE s

trim(s) == trimEnd(trimStart(s))

\* String.prototype.replace with a global pattern of one piece.
replaceAll(s, from, to) == [i \in 1..Len(s) |-> IF s[i] = from THEN to ELSE s[i]]

\* normalizeApiPermissionKey
normalizeApiPermissionKey(key) == replaceAll(toLowerCase(trim(key)), "-", "_")

\* WILDCARD_KEYS = ['*', 'all', '__all__']
WILDCARD_KEYS == {<<"*">>, <<"all">>, <<"_", "_", "all", "_", "_">>}

\* The action strings of the model: a body with or without a space on each
\* side.
ActionBodies ==
    {<<"mail">>, <<"MAIL">>,
     <<"mail", "_", "all">>, <<"mail", "-", "all">>, <<"MAIL", "-", "ALL">>,
     <<"mail", " ", "all">>,
     <<"all">>, <<"ALL">>, <<"*">>,
     <<"_", "_", "all", "_", "_">>, <<"-", "-", "ALL", "-", "-">>}

Pads == {<<>>, <<" ">>}

ActionSamples == {l \o b \o r : l \in Pads, b \in ActionBodies, r \in Pads}

\* The keys a stored permission map can carry (they are looked up as they
\* are stored).
KeySamples ==
    {<<"mail">>, <<"MAIL">>, <<" ", "mail">>,
     <<"mail", "_", "all">>, <<"mail", "-", "all">>, <<"mail", " ", "all">>,
     <<"*">>, <<"all">>, <<"ALL">>,
     <<"_", "_", "all", "_", "_">>, <<"-", "-", "all", "-", "-">>}

\* The values of a stored map: true, false, or something that is no boolean.
PermissionValues == {"true", "false", "other"}

\* The permission maps: undefined, or an object of at most
\* MaxPermissionEntries entries.
PermissionMaps ==
    {[defined |-> FALSE, entries |-> <<>>]} \cup
    {[defined |-> TRUE, entries |-> f] :
        f \in UNION {[S -> PermissionValues] :
                        S \in {T \in SUBSET KeySamples :
                                  Cardinality(T) <= MaxPermissionEntries}}}

\* permissions[key]
permissionAt(permissions, key) ==
    IF key \in DOMAIN permissions.entries THEN permissions.entries[key]
    ELSE "undefined"

\* isApiPermissionAllowed
isApiPermissionAllowedRawAction(permissions, action) ==
    IF ~permissions.defined \/ DOMAIN permissions.entries = {} THEN TRUE
    ELSE IF \E wildcardKey \in WILDCARD_KEYS :
                permissionAt(permissions, wildcardKey) = "true" THEN TRUE
    ELSE IF permissionAt(permissions, action) = "true" THEN TRUE
    ELSE IF permissionAt(permissions, action) = "false" THEN FALSE
    ELSE LET legacyKey == replaceAll(action, "_", "-")
         IN  IF permissionAt(permissions, legacyKey) = "true" THEN TRUE
             ELSE IF permissionAt(permissions, legacyKey) = "false" THEN FALSE
             ELSE FALSE

isApiPermissionAllowedExplicitFirst(permissions, action) ==
    LET actionKey == normalizeApiPermissionKey(action)
    IN  IF ~permissions.defined \/ DOMAIN permissions.entries = {} THEN TRUE
        ELSE IF permissionAt(permissions, actionKey) = "true" THEN TRUE
        ELSE IF permissionAt(permissions, actionKey) = "false" THEN FALSE
        ELSE IF \E wildcardKey \in WILDCARD_KEYS :
                    permissionAt(permissions, wildcardKey) = "true" THEN TRUE
        ELSE LET legacyKey == replaceAll(actionKey, "_", "-")
             IN  IF permissionAt(permissions, legacyKey) = "true" THEN TRUE
                 ELSE IF permissionAt(permissions, legacyKey) = "false" THEN FALSE
                 ELSE FALSE

isApiPermissionAllowed(permissions, action) ==
    LET actionKey == normalizeApiPermissionKey(action)
    IN  IF ~permissions.defined \/ DOMAIN permissions.entries = {} THEN TRUE
        ELSE IF \E wildcardKey \in WILDCARD_KEYS :
                    permissionAt(permissions, wildcardKey) = "true" THEN TRUE
        ELSE IF permissionAt(permissions, actionKey) = "true" THEN TRUE
        ELSE IF permissionAt(permissions, actionKey) = "false" THEN FALSE
        ELSE LET legacyKey == replaceAll(actionKey, "_", "-")
             IN  IF permissionAt(permissions, legacyKey) = "true" THEN TRUE
                 ELSE IF permissionAt(permissions, legacyKey) = "false" THEN FALSE
                 ELSE FALSE

\* MAIL_LOG_ACTIONS (modules/mail/mail.actions.ts), two of its values.
MAIL_LOG_ACTIONS == {<<"mail", "_", "all">>, <<"mail", "_", "new">>}

\* ALLOWED_ACTION_KEYS
ALLOWED_ACTION_KEYS == {normalizeApiPermissionKey(a) : a \in MAIL_LOG_ACTIONS}

\* isKnownApiPermissionKey
isKnownApiPermissionKey(key) ==
    LET normalizedKey == normalizeApiPermissionKey(key)
    IN  normalizedKey \in WILDCARD_KEYS \/ normalizedKey \in ALLOWED_ACTION_KEYS

\* Object.fromEntries: one property per key, with the value of the last
\* entry of that key.
fromEntries(entries) ==
    [k \in {entries[i].key : i \in 1..Len(entries)} |->
        entries[CHOOSE i \in 1..Len(entries) :
                   /\ entries[i].key = k
                   /\ \A j \in 1..Len(entries) : entries[j].key = k => j <= i].value]

\* The keys of the values handed to parseApiPermissions.
ParseKeys ==
    {<<"mail", "_", "all">>, <<"mail", "-", "all">>, <<" ", "MAIL", "_", "ALL">>,
     <<"mail", "_", "new">>, <<"*">>, <<"ALL">>, <<"-", "-", "all", "-", "-">>,
     <<"unknown", "_", "action">>, <<"mail">>}

\* The values handed to parseApiPermissions: something that is no object
\* (null, a string), or an object, whose entries Object.entries lists in
\* the order of insertion, each key once.
ParseValues ==
    {[object |-> FALSE, entries |-> <<>>]} \cup
    {[object |-> TRUE, entries |-> es] :
        es \in {e \in UNION {[1..n -> [key : ParseKeys, value : PermissionValues]] :
                                n \in 0..MaxPermissionEntries} :
                    \A i \in 1..Len(e), j \in 1..Len(e) :
                        i # j => e[i].key # e[j].key}}

\* parseApiPermissions without the filter of the known keys (mutation).
parseApiPermissionsKeepingUnknown(value) ==
    LET booleans == SelectSeq(value.entries,
                              LAMBDA e : e.value \in {"true", "false"})
        normalized == [i \in 1..Len(booleans) |->
                          [key |-> normalizeApiPermissionKey(booleans[i].key),
                           value |-> booleans[i].value]]
    IN  IF ~value.object \/ Len(normalized) = 0
        THEN [defined |-> FALSE, entries |-> <<>>]
        ELSE [defined |-> TRUE, entries |-> fromEntries(normalized)]

\* parseApiPermissions
parseApiPermissions(value) ==
    LET booleans == SelectSeq(value.entries,
                              LAMBDA e : e.value \in {"true", "false"})
        normalized == [i \in 1..Len(booleans) |->
                          [key |-> normalizeApiPermissionKey(booleans[i].key),
                           value |-> booleans[i].value]]
        entries == SelectSeq(normalized,
                             LAMBDA e : isKnownApiPermissionKey(e.key))
    IN  IF ~value.object \/ Len(entries) = 0
        THEN [defined |-> FALSE, entries |-> <<>>]
        ELSE [defined |-> TRUE, entries |-> fromEntries(entries)]

\* Object.entries of a parsed map, as a value for parseApiPermissions.
RECURSIVE entriesOf(_)
entriesOf(object) ==
    IF DOMAIN object = {} THEN <<>>
    ELSE LET k == CHOOSE x \in DOMAIN object : TRUE
         IN  <<[key |-> k, value |-> object[k]]>>
                 \o entriesOf([x \in DOMAIN object \ {k} |-> object[x]])

asValue(permissions) ==
    IF permissions.defined
    THEN [object |-> TRUE, entries |-> entriesOf(permissions.entries)]
    ELSE [object |-> FALSE, entries |-> <<>>]

NoParse == [done |-> FALSE, value |-> [object |-> FALSE, entries |-> <<>>],
            parsed |-> [defined |-> FALSE, entries |-> <<>>],
            again |-> [defined |-> FALSE, entries |-> <<>>]]

\* What parseApiPermissions leaves alone.
nonParseVars == <<poolVars, rateVars, loginVars, tokenVars, retentionVars, permVars,
                  now, redisConfigured, redisFailed, lastVars, twoFaVars,
                  mailboxVars, cryptoVars, loginRaceVars, loginPairVars, totpVars,
    imapVars>>

\* parseApiPermissions(value), and parseApiPermissions of what it returned.
ParseApiPermissions(value) ==
    /\ parseLast = NoParse
    /\ parseLast' = [done |-> TRUE, value |-> value,
                     parsed |-> parseApiPermissions(value),
                     again |-> parseApiPermissions(
                                   asValue(parseApiPermissions(value)))]
    /\ UNCHANGED nonParseVars

ParseIdle == parseLast = NoParse

(***************************************************************************)
(* The IMAP fetch (mailService.getEmailsViaImap): one call, its connection *)
(* events, the events of its fetch and its promise.                        *)
(***************************************************************************)
MaxResults == 3     \* messages in the folder
MaxLimit == 2       \* the largest limit of a call
MaxDate == 2        \* the latest Date header

\* The search answers with the sequence numbers of the folder, oldest first.
searchResults(n) == [i \in 1..n |-> i]

\* results.slice(-limit): the last limit elements, all when there are fewer.
sliceLast(results, limit) ==
    IF Len(results) <= limit THEN results
    ELSE SubSeq(results, Len(results) - limit + 1, Len(results))

\* The sort key of a listed message: the time of its date, 0 without one.
dateKey(dates, m) == dates[m]

\* A message put into a list sorted by date descending, behind the messages
\* of the same date (Array.prototype.sort is stable).
insertByDate(sorted, m, dates) ==
    LET before == Cardinality({i \in 1..Len(sorted) :
                                   dateKey(dates, sorted[i]) >= dateKey(dates, m)})
    IN  SubSeq(sorted, 1, before) \o <<m>> \o SubSeq(sorted, before + 1, Len(sorted))

RECURSIVE sortByDateDesc(_, _)
\* emailList.sort((a, b) => dateB - dateA)
sortByDateDesc(emails, dates) ==
    IF emails = <<>> THEN <<>>
    ELSE insertByDate(sortByDateDesc(SubSeq(emails, 1, Len(emails) - 1), dates),
                      emails[Len(emails)], dates)

\* The first resolve or reject settles the promise; later ones do nothing.
settle(call, outcome, value) ==
    IF call.outcome = "pending"
    THEN [call EXCEPT !.outcome = outcome, !.value = value]
    ELSE call

NoImap == [phase |-> "none", n |-> 0, dates |-> <<>>, limit |-> 0,
           limitedResults |-> <<>>, messageCount |-> 0, processedCount |-> 0,
           emitted |-> {}, streaming |-> {}, parsed |-> {}, emailList |-> <<>>,
           fetchOver |-> FALSE, endCalled |-> FALSE, endEmitted |-> FALSE,
           broken |-> FALSE, outcome |-> "pending", value |-> <<>>]

\* What getEmailsViaImap leaves alone.
nonImapVars == <<poolVars, rateVars, loginVars, tokenVars, retentionVars, permVars,
                 now, redisConfigured, redisFailed, lastVars, twoFaVars,
                 mailboxVars, cryptoVars, loginRaceVars, loginPairVars, totpVars,
                 parseVars>>

\* The server answers while the connection stands and has not been ended.
serverAnswers == ~imap.broken /\ ~imap.endEmitted

\* 'ready': the folder is opened.
ImapReady ==
    /\ imap.phase = "connecting"
    /\ serverAnswers
    /\ imap' = [imap EXCEPT !.phase = "opening"]
    /\ UNCHANGED nonImapVars

\* openBox answers: with an error the catch ends the connection and
\* rejects, else the search is sent.
OpenBox(err) ==
    /\ imap.phase = "opening"
    /\ serverAnswers
    /\ imap' = IF err
               THEN settle([imap EXCEPT !.phase = "stopped", !.endCalled = TRUE],
                           "rejected", <<>>)
               ELSE [imap EXCEPT !.phase = "searching"]
    /\ UNCHANGED nonImapVars

\* The search answers: an error, no message, or the messages to fetch.
Search(err) ==
    /\ imap.phase = "searching"
    /\ serverAnswers
    /\ imap' =
          IF err
          THEN settle([imap EXCEPT !.phase = "stopped", !.endCalled = TRUE],
                      "rejected", <<>>)
          ELSE IF Len(searchResults(imap.n)) = 0
          THEN settle([imap EXCEPT !.phase = "stopped", !.endCalled = TRUE],
                      "resolved", <<>>)
          ELSE [imap EXCEPT
                   !.phase = "fetching",
                   !.limitedResults = sliceLast(searchResults(imap.n), imap.limit),
                   !.messageCount = Len(sliceLast(searchResults(imap.n), imap.limit))]
    /\ UNCHANGED nonImapVars

\* The messages of the fetch.
selected == {imap.limitedResults[i] : i \in 1..Len(imap.limitedResults)}

\* f 'message' of one fetched message.
FetchMessage(m) ==
    /\ imap.phase = "fetching"
    /\ serverAnswers
    /\ ~imap.fetchOver
    /\ m \in selected \ imap.emitted
    /\ imap' = [imap EXCEPT !.emitted = @ \cup {m}]
    /\ UNCHANGED nonImapVars

\* msg 'body': simpleParser starts on the stream of the message.
MessageBody(m) ==
    /\ imap.phase = "fetching"
    /\ serverAnswers
    /\ ~imap.fetchOver
    /\ m \in imap.emitted \ (imap.streaming \cup imap.parsed)
    /\ imap' = [imap EXCEPT !.streaming = @ \cup {m}]
    /\ UNCHANGED nonImapVars

\* simpleParser is through with a message: then (the message is listed) or
\* catch (the error is logged), and finally the count; the last one ends
\* the connection.
ParseDone(m, ok) ==
    /\ m \in imap.streaming
    /\ imap' = [imap EXCEPT
                   !.streaming = @ \ {m},
                   !.parsed = @ \cup {m},
                   !.emailList = IF ok THEN Append(@, m) ELSE @,
                   !.processedCount = @ + 1,
                   !.endCalled = @ \/ imap.processedCount + 1 = imap.messageCount]
    /\ UNCHANGED nonImapVars

\* f 'error': the connection is ended and the promise rejected.
FetchError ==
    /\ imap.phase = "fetching"
    /\ serverAnswers
    /\ ~imap.fetchOver
    /\ imap' = settle([imap EXCEPT !.fetchOver = TRUE, !.endCalled = TRUE],
                      "rejected", <<>>)
    /\ UNCHANGED nonImapVars

\* As FetchEnd, ending the connection as soon as the fetch is over.
FetchEndClosing ==
    /\ imap.phase = "fetching"
    /\ serverAnswers
    /\ ~imap.fetchOver
    /\ selected \subseteq imap.streaming \cup imap.parsed
    /\ imap' = [imap EXCEPT !.fetchOver = TRUE, !.endCalled = TRUE]
    /\ UNCHANGED nonImapVars

\* f 'end', after the last message was handed over: the connection is ended
\* here only when there was nothing to fetch.
FetchEnd ==
    /\ imap.phase = "fetching"
    /\ serverAnswers
    /\ ~imap.fetchOver
    /\ selected \subseteq imap.streaming \cup imap.parsed
    /\ imap' = [imap EXCEPT !.fetchOver = TRUE,
                            !.endCalled = @ \/ imap.messageCount = 0]
    /\ UNCHANGED nonImapVars

\* 'error' of the connection: the promise is rejected.
ConnectionError ==
    /\ imap.phase # "none"
    /\ serverAnswers
    /\ imap' = settle([imap EXCEPT !.broken = TRUE], "rejected", <<>>)
    /\ UNCHANGED nonImapVars

\* 'end' of the connection, after imap.end(): the list is sorted and the
\* promise resolved with it.
ConnectionEnd ==
    /\ imap.endCalled
    /\ ~imap.endEmitted
    /\ imap' = settle([imap EXCEPT
                          !.endEmitted = TRUE,
                          !.emailList = sortByDateDesc(@, imap.dates)],
                      "resolved", sortByDateDesc(imap.emailList, imap.dates))
    /\ UNCHANGED nonImapVars

ImapIdle == imap = NoImap

\* A request for an action is checked against the permission map of its key.
CheckApiPermission(action) ==
    /\ permResult = "none"
    /\ permAction' = action
    /\ permResult' = IF isApiPermissionAllowed(permMap, action)
                     THEN "allow" ELSE "deny"
    /\ UNCHANGED <<nonPermVars, permMap>>

PermIdle ==
    /\ permMap = [defined |-> FALSE, entries |-> <<>>]
    /\ permAction = <<>>
    /\ permResult = "none"

(***************************************************************************)
(* Two-factor management of one admin account (modules/auth/auth.service.ts *)
(* setupTwoFactor, enableTwoFactor, disableTwoFactor; adminService.update; *)
(* POST /admin/auth/logout).  A call reads the Admin row, decides, and     *)
(* writes it in a later step: calls on the same account interleave between *)
(* the read and the write.                                                 *)
(***************************************************************************)
\* Bounds of the two-factor model: the secrets generateBase32Secret issues,
\* and the calls in flight.
MaxSecrets == 2
NumTwoFaCalls == 2

Secrets == 1..MaxSecrets
NoSecret == 0
TwoFaCallIds == 1..NumTwoFaCalls

\* Admin.twoFactorEnabled, twoFactorSecret and twoFactorTempSecret of a row
\* created without two-factor authentication.
NoTwoFactor == [enabled |-> FALSE, secret |-> NoSecret, temp |-> NoSecret]

\* A call between its read and its write: the secret it will write (setup,
\* enable) or has verified (disable), and the twoFactorEnabled of an update.
IdleTwoFaCall == [pc |-> "idle", secret |-> NoSecret, set |-> "keep"]

\* The otp of a two-factor request: the secret it is the code of, NoSecret
\* for a missing or wrong code.
TwoFaOtps == {NoSecret} \cup Secrets

\* verifyTotpCode(secret, input.otp, window)
verifyTotpCodeFor(secret, otp) == otp # NoSecret /\ otp = secret

\* The last two-factor call that ended: its result, the password check and
\* the secret whose code it verified.
NoTwoFaOp == [op |-> "none", code |-> "none", bit |-> 0, password |-> FALSE,
              otp |-> NoSecret]

twoFaEnded(op, code, password, otp) ==
    [op |-> op, code |-> code, bit |-> 1 - twoFaLast.bit,
     password |-> password, otp |-> otp]

\* The states of the two-factor state machine.
TwoFaState(row) ==
    IF row.enabled THEN "Enabled"
    ELSE IF row.temp # NoSecret THEN "Pending"
    ELSE "Disabled"

\* setupTwoFactor up to its update: the row is read and a secret generated.
SetupTwoFactorBegin(c) ==
    /\ twoFaCalls[c].pc = "idle"
    /\ IF twoFa.enabled
       THEN /\ twoFaLast' = twoFaEnded("setup", "TWO_FACTOR_ENABLED", FALSE, NoSecret)
            /\ UNCHANGED <<twoFaCalls, twoFaIssued>>
       ELSE /\ twoFaIssued < MaxSecrets
            /\ twoFaIssued' = twoFaIssued + 1
            /\ twoFaCalls' = [twoFaCalls EXCEPT
                                 ![c] = [IdleTwoFaCall EXCEPT
                                            !.pc = "setup",
                                            !.secret = twoFaIssued + 1]]
            /\ UNCHANGED twoFaLast
    /\ UNCHANGED <<nonTwoFaVars, twoFa, twoFaVerified>>

\* setupTwoFactor: the update of twoFactorTempSecret.
SetupTwoFactorCommit(c) ==
    /\ twoFaCalls[c].pc = "setup"
    /\ twoFa' = [twoFa EXCEPT !.temp = twoFaCalls[c].secret]
    /\ twoFaCalls' = [twoFaCalls EXCEPT ![c] = IdleTwoFaCall]
    /\ twoFaLast' = twoFaEnded("setup", "ok", FALSE, NoSecret)
    /\ UNCHANGED <<nonTwoFaVars, twoFaIssued, twoFaVerified>>

\* enableTwoFactor up to its update.
EnableTwoFactorBegin(c, otp) ==
    /\ twoFaCalls[c].pc = "idle"
    /\ IF twoFa.enabled
       THEN /\ twoFaLast' = twoFaEnded("enable", "ok", FALSE, NoSecret)
            /\ UNCHANGED twoFaCalls
       ELSE IF twoFa.temp = NoSecret
       THEN /\ twoFaLast' = twoFaEnded("enable", "TWO_FACTOR_SETUP_REQUIRED",
                                       FALSE, NoSecret)
            /\ UNCHANGED twoFaCalls
       ELSE IF ~verifyTotpCodeFor(twoFa.temp, otp)
       THEN /\ twoFaLast' = twoFaEnded("enable", "INVALID_OTP", FALSE, NoSecret)
            /\ UNCHANGED twoFaCalls
       ELSE /\ twoFaCalls' = [twoFaCalls EXCEPT
                                 ![c] = [IdleTwoFaCall EXCEPT
                                            !.pc = "enable",
                                            !.secret = twoFa.temp]]
            /\ UNCHANGED twoFaLast
    /\ UNCHANGED <<nonTwoFaVars, twoFa, twoFaIssued, twoFaVerified>>

\* enableTwoFactor: the update that enables, with the pending secret it read.
EnableTwoFactorCommit(c) ==
    /\ twoFaCalls[c].pc = "enable"
    /\ twoFa' = [enabled |-> TRUE, secret |-> twoFaCalls[c].secret,
                 temp |-> NoSecret]
    /\ twoFaVerified' = twoFaCalls[c].secret
    /\ twoFaCalls' = [twoFaCalls EXCEPT ![c] = IdleTwoFaCall]
    /\ twoFaLast' = twoFaEnded("enable", "ok", FALSE, twoFaCalls[c].secret)
    /\ UNCHANGED <<nonTwoFaVars, twoFaIssued>>

\* disableTwoFactor up to its update.
DisableTwoFactorBegin(c, password, otp) ==
    /\ twoFaCalls[c].pc = "idle"
    /\ IF ~twoFa.enabled
       THEN /\ twoFaLast' = twoFaEnded("disable", "ok", FALSE, NoSecret)
            /\ UNCHANGED twoFaCalls
       ELSE IF ~password
       THEN /\ twoFaLast' = twoFaEnded("disable", "INVALID_PASSWORD", FALSE, NoSecret)
            /\ UNCHANGED twoFaCalls
       ELSE IF twoFa.secret = NoSecret \/ ~verifyTotpCodeFor(twoFa.secret, otp)
       THEN /\ twoFaLast' = twoFaEnded("disable", "INVALID_OTP", TRUE, NoSecret)
            /\ UNCHANGED twoFaCalls
       ELSE /\ twoFaCalls' = [twoFaCalls EXCEPT
                                 ![c] = [IdleTwoFaCall EXCEPT
                                            !.pc = "disable",
                                            !.secret = twoFa.secret]]
            /\ UNCHANGED twoFaLast
    /\ UNCHANGED <<nonTwoFaVars, twoFa, twoFaIssued, twoFaVerified>>

\* disableTwoFactor: the update that disables and clears both secrets.
DisableTwoFactorCommit(c) ==
    /\ twoFaCalls[c].pc = "disable"
    /\ twoFa' = NoTwoFactor
    /\ twoFaVerified' = NoSecret
    /\ twoFaCalls' = [twoFaCalls EXCEPT ![c] = IdleTwoFaCall]
    /\ twoFaLast' = twoFaEnded("disable", "ok", TRUE, twoFaCalls[c].secret)
    /\ UNCHANGED <<nonTwoFaVars, twoFaIssued>>

\* The twoFactorEnabled of an UpdateAdminInput: undefined, true or false.
TwoFactorUpdates == {"keep", "on", "off"}

\* adminService.update up to its update.
AdminUpdateBegin(c, set) ==
    /\ twoFaCalls[c].pc = "idle"
    /\ IF set = "on" /\ ~twoFa.enabled
       THEN /\ twoFaLast' = twoFaEnded("update", "INVALID_2FA_UPDATE", FALSE, NoSecret)
            /\ UNCHANGED twoFaCalls
       ELSE /\ twoFaCalls' = [twoFaCalls EXCEPT
                                 ![c] = [IdleTwoFaCall EXCEPT
                                            !.pc = "update", !.set = set]]
            /\ UNCHANGED twoFaLast
    /\ UNCHANGED <<nonTwoFaVars, twoFa, twoFaIssued, twoFaVerified>>

\* adminService.update: the update with updateData.
AdminUpdateCommit(c) ==
    /\ twoFaCalls[c].pc = "update"
    /\ twoFa' = IF twoFaCalls[c].set = "off" THEN NoTwoFactor
                ELSE IF twoFaCalls[c].set = "on"
                THEN [twoFa EXCEPT !.enabled = TRUE]
                ELSE twoFa
    /\ twoFaVerified' = IF twoFaCalls[c].set = "off" THEN NoSecret
                        ELSE twoFaVerified
    /\ twoFaCalls' = [twoFaCalls EXCEPT ![c] = IdleTwoFaCall]
    /\ twoFaLast' = twoFaEnded("update", "ok", FALSE, NoSecret)
    /\ UNCHANGED <<nonTwoFaVars, twoFaIssued>>

\* POST /logout: the cookie is cleared.
Logout ==
    /\ twoFaLast' = twoFaEnded("logout", "ok", FALSE, NoSecret)
    /\ UNCHANGED <<nonTwoFaVars, twoFa, twoFaCalls, twoFaIssued, twoFaVerified>>

TwoFaIdle ==
    /\ twoFa = NoTwoFactor
    /\ twoFaCalls = [c \in TwoFaCallIds |-> IdleTwoFaCall]
    /\ twoFaIssued = 0
    /\ twoFaVerified = NoSecret
    /\ twoFaLast = NoTwoFaOp

(***************************************************************************)
(* The fetch strategy of a group (modules/group/group.schema.ts) and       *)
(* mailService.processMailbox, which empties a folder through Graph.       *)
(***************************************************************************)
\* fetchStrategySchema
FetchStrategies == {"GRAPH_FIRST", "IMAP_FIRST", "GRAPH_ONLY", "IMAP_ONLY"}

\* Bounds of the clearing model: the messages of the folder, the messages of
\* one listing (500 in the code), the deletions in flight together (10 in the
\* code) and the listings of one call (10 in the code).
MaxMessages == 4
PageSize == 3
BatchSize == 2
MaxPages == 2

\* The first n elements of a sequence.
Take(s, n) == SubSeq(s, 1, IF Len(s) < n THEN Len(s) ELSE n)

\* The elements of a sequence.
Range(s) == {s[i] : i \in DOMAIN s}

\* The messages of a set, newest first.
RECURSIVE Listing(_)
Listing(S) ==
    IF S = {} THEN <<>>
    ELSE LET m == CHOOSE x \in S : \A y \in S : y <= x
         IN  <<m>> \o Listing(S \ {m})

\* getEmailsViaGraphApi(accessToken, mailbox, 500): the first page.
getEmailsViaGraphApi(folder) == Take(Listing(folder), PageSize)

\* deleteMessageViaGraphApi: the messages of a chunk that are gone afterwards;
\* an error of a DELETE is caught and logged.
deleteMessageViaGraphApi(chunk, failing) == Range(chunk) \ failing

\* The loop over the chunks of one page, from index i on: what it counts and
\* what it deletes.
RECURSIVE deleteChunks(_, _, _)
deleteChunks(messages, i, failing) ==
    IF i > Len(messages) THEN [counted |-> 0, gone |-> {}]
    ELSE LET chunk == Take(SubSeq(messages, i, Len(messages)), BatchSize)
             rest == deleteChunks(messages, i + BatchSize, failing)
         IN  [counted |-> Len(chunk) + rest.counted,
              gone |-> deleteMessageViaGraphApi(chunk, failing) \cup rest.gone]

\* The loop over the pages: the listing of page throwsAt throws.
RECURSIVE processPages(_, _, _, _, _)
processPages(folder, failing, page, deletedCount, throwsAt) ==
    IF page >= MaxPages
    THEN [status |-> "success", deletedCount |-> deletedCount, folder |-> folder]
    ELSE IF page + 1 = throwsAt
    THEN [status |-> "error", deletedCount |-> deletedCount, folder |-> folder]
    ELSE LET messages == getEmailsViaGraphApi(folder)
             d == deleteChunks(messages, 1, failing)
         IN  IF Len(messages) = 0
             THEN [status |-> "success", deletedCount |-> deletedCount,
                   folder |-> folder]
             ELSE processPages(folder \ d.gone, failing, page + 1,
                               deletedCount + d.counted, throwsAt)

\* mailService.processMailbox
processMailbox(in) ==
    IF ~in.hasToken
    THEN [code |-> "GRAPH_API_FAILED", status |-> "none", deletedCount |-> 0,
          folder |-> 1..in.messages]
    ELSE LET r == processPages(1..in.messages, in.failing, 0, 0, in.throwsAt)
         IN  [code |-> "ok", status |-> r.status, deletedCount |-> r.deletedCount,
              folder |-> r.folder]

\* A call: whether getGraphAccessToken answers, the messages of the folder,
\* the messages whose DELETE fails, and the listing that throws (0: none).
ClearInputs ==
    {in \in [hasToken : BOOLEAN, messages : 0..MaxMessages,
             failing : SUBSET (1..MaxMessages), throwsAt : 0..MaxPages] :
        in.failing \subseteq 1..in.messages}

NoClear == [in |-> [hasToken |-> FALSE, messages |-> 0, failing |-> {},
                    throwsAt |-> 0],
            code |-> "none", status |-> "none", deletedCount |-> 0,
            removed |-> 0]

\* POST /process-mailbox: the call and what it answers; removed is the number
\* of messages that left the folder.
ProcessMailbox(in) ==
    /\ clearLast = NoClear
    /\ LET r == processMailbox(in)
       IN  clearLast' = [in |-> in, code |-> r.code, status |-> r.status,
                         deletedCount |-> r.deletedCount,
                         removed |-> in.messages - Cardinality(r.folder)]
    /\ UNCHANGED <<nonMailboxVars, fetchStrategy>>

MailboxIdle ==
    /\ fetchStrategy = [e \in Addresses |-> "GRAPH_FIRST"]
    /\ clearLast = NoClear

(***************************************************************************)
(* The secret box (lib/crypto.ts: encrypt, decrypt).  Strings are          *)
(* sequences of characters and buffers are sequences of bytes.  AES-256-GCM *)
(* under the one key of the process is modelled symbolically: the cipher   *)
(* adds a key stream that depends on the iv to the text, byte by byte, and *)
(* the tag of (iv, ciphertext) is a value only the key holder can compute, *)
(* different for different pairs.                                          *)
(***************************************************************************)
\* Bounds of the secret box model: the bytes of an iv (16 in the code), and
\* the longest plaintext.
IvLength == 1
MaxPlain == 2

HexDigits == <<"0", "1", "2", "3", "4", "5", "6", "7",
               "8", "9", "a", "b", "c", "d", "e", "f">>

isHexDigit(c) == \E i \in DOMAIN HexDigits : HexDigits[i] = c

hexValue(c) == (CHOOSE i \in DOMAIN HexDigits : HexDigits[i] = c) - 1

\* buffer.toString('hex')
RECURSIVE toHex(_)
toHex(bytes) ==
    IF bytes = <<>> THEN <<>>
    ELSE <<HexDigits[(Head(bytes) \div 16) + 1], HexDigits[(Head(bytes) % 16) + 1]>>
             \o toHex(Tail(bytes))

\* Buffer.from(s, 'hex'): the bytes of the pairs of hex digits of s, up to
\* the first pair that is not one.
RECURSIVE fromHex(_)
fromHex(s) ==
    IF Len(s) < 2 \/ ~isHexDigit(s[1]) \/ ~isHexDigit(s[2]) THEN <<>>
    ELSE <<16 * hexValue(s[1]) + hexValue(s[2])>> \o fromHex(Tail(Tail(s)))

\* Whether a string is the hex form of a buffer.
isHex(s) == Len(s) % 2 = 0 /\ \A i \in DOMAIN s : isHexDigit(s[i])

\* encryptedText.split(':')
RECURSIVE split(_)
split(s) ==
    IF \A i \in DOMAIN s : s[i] # ":" THEN <<s>>
    ELSE LET k == CHOOSE i \in DOMAIN s :
                      s[i] = ":" /\ \A j \in 1..(i - 1) : s[j] # ":"
         IN  <<SubSeq(s, 1, k - 1)>> \o split(SubSeq(s, k + 1, Len(s)))

\* The sum of the bytes of a buffer.
RECURSIVE sumOf(_)
sumOf(bytes) == IF bytes = <<>> THEN 0 ELSE Head(bytes) + sumOf(Tail(bytes))

\* The key stream of the cipher at position i under an iv.
keyStream(iv, i) == (7 * sumOf(iv) + 3 * i + 1) % 256

\* cipher.update(text, 'utf8', 'hex') + cipher.final('hex'), as bytes.
cipherBytes(iv, text) ==
    [i \in DOMAIN text |-> (text[i] + keyStream(iv, i)) % 256]

\* decipher.update(encrypted, 'hex', 'utf8') + decipher.final('utf8').
decipherBytes(iv, encrypted) ==
    [i \in DOMAIN encrypted |-> (encrypted[i] + 256 - keyStream(iv, i)) % 256]

\* cipher.getAuthTag(): the tag of an iv and a ciphertext under the key.
getAuthTag(iv, encrypted) == <<Len(iv)>> \o iv \o encrypted

\* encrypt, with the iv that randomBytes(IV_LENGTH) returned.
encrypt(text, iv) ==
    LET encrypted == cipherBytes(iv, text)
    IN  toHex(iv) \o <<":">> \o toHex(getAuthTag(iv, encrypted)) \o <<":">>
            \o toHex(encrypted)

\* decrypt; strictUpdate: whether decipher.update throws on an input that is
\* not the hex form of a buffer (it depends on the runtime) instead of
\* decoding it as Buffer.from does.
decrypt(encryptedText, strictUpdate) ==
    LET parts == split(encryptedText)
        failed == [ok |-> FALSE, text |-> <<>>]
    IN  IF Len(parts) # 3 THEN failed
        ELSE LET iv == fromHex(parts[1])
                 authTag == fromHex(parts[2])
                 encrypted == fromHex(parts[3])
             IN  IF iv = <<>> THEN failed
                 ELSE IF strictUpdate /\ ~isHex(parts[3]) THEN failed
                 ELSE IF authTag # getAuthTag(iv, encrypted) THEN failed
                 ELSE [ok |-> TRUE, text |-> decipherBytes(iv, encrypted)]

\* The plaintexts, as utf8 bytes, and the ivs.
PlainBytes == {0, 1}
Plaintexts == UNION {[1..n -> PlainBytes] : n \in 0..MaxPlain}
Ivs == [1..IvLength -> {0, 1}]

\* What happens to a stored blob before it is decrypted: nothing, or one
\* character is replaced, inserted or removed.
EditChars == {"0", "1", "f", "z", ":"}

edited(blob, kind, at, char) ==
    IF kind = "replace" THEN [blob EXCEPT ![at] = char]
    ELSE IF kind = "insert"
    THEN SubSeq(blob, 1, at - 1) \o <<char>> \o SubSeq(blob, at, Len(blob))
    ELSE IF kind = "remove"
    THEN SubSeq(blob, 1, at - 1) \o SubSeq(blob, at + 1, Len(blob))
    ELSE blob

Edits(blob) ==
    {edited(blob, "none", 1, "0")}
        \cup {edited(blob, kind, at, char) :
                 kind \in {"replace", "remove"}, at \in DOMAIN blob,
                 char \in EditChars}
        \cup {edited(blob, "insert", at, char) :
                 at \in 1..(Len(blob) + 1), char \in EditChars}

NoCrypto == [done |-> FALSE, text |-> <<>>, stored |-> <<>>, blob |-> <<>>,
             ok |-> FALSE, out |-> <<>>]

\* decrypt(blob) of what encrypt(text) stored, after the blob was edited.
Decrypt(text, iv, blob, strictUpdate) ==
    /\ cryptoLast = NoCrypto
    /\ LET r == decrypt(blob, strictUpdate)
       IN  cryptoLast' = [done |-> TRUE, text |-> text,
                          stored |-> encrypt(text, iv), blob |-> blob,
                          ok |-> r.ok, out |-> r.text]
    /\ UNCHANGED nonCryptoVars

CryptoIdle == cryptoLast = NoCrypto

(***************************************************************************)
(* The pool operations of the routes (/get-email, /list-emails,            *)
(* /pool-stats, /reset-pool) and of the admin (PUT /:id/pool-emails), one   *)
(* request at a time.                                                      *)
(***************************************************************************)
\* The ids a pool-emails body can carry: 0 is not an id, MaxMailbox + 1 is
\* the id of no mailbox.
RequestedIds == 0..(MaxMailbox + 1)

\* The emailIds arrays of a request, as sets of at most MaxRequested ids.
MaxRequested == 2
RequestedIdSets == {S \in SUBSET RequestedIds : Cardinality(S) <= MaxRequested}

NoStats == [total |-> 0, used |-> 0, remaining |-> 0]

\* The last operation on the pool: its input and its result; prev is the
\* mailbox the /get-email of the same key just before it returned (before a
\* /reset-pool of the key, for the /get-email after one), 0 for none.
NoPoolOp == [op |-> "none", key |-> 0, group |-> 0, ids |-> {},
             code |-> "none", email |-> 0, listed |-> {}, stats |-> NoStats,
             prev |-> 0]

\* The mailbox the last operation handed to key k, when it was a /get-email
\* of k.
handedJustBefore(k) ==
    IF poolLast.op = "get-email" /\ poolLast.code = "ok" /\ poolLast.key = k
    THEN poolLast.email ELSE 0

\* The same, looking through a /reset-pool of k.
handedBefore(k) ==
    IF poolLast.op = "reset-pool" /\ poolLast.code = "ok" /\ poolLast.key = k
    THEN poolLast.prev ELSE handedJustBefore(k)

\* applyScopeToEmailWhere({ status: 'ACTIVE' }, scope, groupId) + findMany:
\* the ids it selects.
scopedEmailIds(k, groupName) ==
    {m \in Mailboxes :
        /\ emailStatus[m] = "ACTIVE"
        /\ ScopeWhere(m, apiKeyScope[k], groupName)}

\* The errors of resolveGroupId and applyScopeToEmailWhere, "ok" for none.
scopeError(k, groupName) ==
    IF groupName # NoGroupName /\ ~GroupExists(groupName) THEN "GROUP_NOT_FOUND"
    ELSE IF GroupForbidden(apiKeyScope[k], groupName) THEN "GROUP_FORBIDDEN"
    ELSE "ok"

\* Math.max(0, total - used)
remainingOf(total, used) == IF total - used > 0 THEN total - used ELSE 0

\* poolService.getStats that counts every row of the key (mutation).
getStatsEveryRow(k, groupName) ==
    LET emailIds == scopedEmailIds(k, groupName)
        total == Cardinality(emailIds)
        used == Cardinality({m \in Mailboxes : usages[k][m] > 0})
    IN  IF scopeError(k, groupName) # "ok"
        THEN [code |-> scopeError(k, groupName), stats |-> NoStats]
        ELSE [code |-> "ok",
              stats |-> [total |-> total, used |-> used,
                         remaining |-> remainingOf(total, used)]]

\* poolService.getStats
getStats(k, groupName) ==
    LET emailIds == scopedEmailIds(k, groupName)
        total == Cardinality(emailIds)
        used == Cardinality({m \in emailIds : usages[k][m] > 0})
    IN  IF scopeError(k, groupName) # "ok"
        THEN [code |-> scopeError(k, groupName), stats |-> NoStats]
        ELSE [code |-> "ok",
              stats |-> [total |-> total, used |-> used,
                         remaining |-> remainingOf(total, used)]]

\* poolService.reset that deletes every row of the key (mutation).
resetEveryRow(k, groupName) ==
    IF scopeError(k, groupName) # "ok"
    THEN [code |-> scopeError(k, groupName), usages |-> usages]
    ELSE [code |-> "ok",
          usages |-> [usages EXCEPT ![k] = [m \in Mailboxes |-> 0]]]

\* poolService.reset: deleteMany of the rows of the key on the selected ids.
reset(k, groupName) ==
    LET ids == scopedEmailIds(k, groupName)
    IN  IF scopeError(k, groupName) # "ok"
        THEN [code |-> scopeError(k, groupName), usages |-> usages]
        ELSE [code |-> "ok",
              usages |-> [usages EXCEPT ![k] =
                             [m \in Mailboxes |->
                                 IF m \in ids THEN 0 ELSE usages[k][m]]]]

\* emailService.list({ status: 'ACTIVE', groupName }): where.group = { name }
\* when a name is given; the key is not a parameter.
list(groupName) ==
    {m \in Mailboxes :
        /\ emailStatus[m] = "ACTIVE"
        /\ groupName # NoGroupName => emailGroup(m) = groupName}

\* The rows of the key after the transaction of updateEmailUsage.
usagesAfterUpdate(k, emailIds, groupId) ==
    LET ids == scopedEmailIds(k, groupId)
        nextEmailIds == {id \in emailIds : id > 0}
        existing == {m \in ids : usages[k][m] > 0}
        toAdd == nextEmailIds \ existing
        toRemove == existing \ nextEmailIds
    IN  [usages EXCEPT ![k] =
            [m \in Mailboxes |->
                IF m \in toRemove THEN 0
                ELSE IF m \in toAdd THEN usages[k][m] + 1
                ELSE usages[k][m]]]

\* updateEmailUsage without the check of the requested ids (mutation).
updateEmailUsageUnchecked(k, emailIds, groupId) ==
    IF GroupForbidden(apiKeyScope[k], groupId)
    THEN [code |-> "GROUP_FORBIDDEN", usages |-> usages]
    ELSE [code |-> "ok",
          usages |-> [usages EXCEPT ![k] =
                         [m \in Mailboxes |->
                             IF m \in emailIds THEN 1
                             ELSE IF m \in scopedEmailIds(k, groupId) THEN 0
                             ELSE usages[k][m]]]]

\* poolService.updateEmailUsage: the requested ids that are positive must all
\* be selected ids, then the rows on the selected ids are replaced.
updateEmailUsage(k, emailIds, groupId) ==
    LET ids == scopedEmailIds(k, groupId)
        uniqueRequestedIds == {id \in emailIds : id > 0}
        invalidIds == uniqueRequestedIds \ ids
    IN  IF GroupForbidden(apiKeyScope[k], groupId)
        THEN [code |-> "GROUP_FORBIDDEN", usages |-> usages]
        ELSE IF invalidIds # {}
        THEN [code |-> "EMAIL_FORBIDDEN", usages |-> usages]
        ELSE [code |-> "ok", usages |-> usagesAfterUpdate(k, emailIds, groupId)]

\* mailService.logApiCall: the rows after the insert.
logApiCall(logs, t) == logs \cup {t}

\* What a pool operation leaves alone.
nonPoolOpVars == <<emailStatus, mailMeta, apiKeyScope, calls, granted, fetchLast, now,
                   redisConfigured, redisFailed, rateVars, loginVars, tokenVars,
                   running, retentionJob, retentionLast, permVars, serviceVars>>

\* /get-email with no other request in flight: getUnusedEmail, then markUsed;
\* a markUsed that hits ALREADY_USED repeats the pass and ends, after
\* MaxAttempts passes, with CONCURRENCY_LIMIT.
GetEmail(k, groupName) ==
    LET r == getUnusedEmail(k, groupName)
        mk == markUsed(k, r.id)
        code == IF r.code = "null" THEN "NO_UNUSED_EMAIL"
                ELSE IF r.code # "ok" THEN r.code
                ELSE IF mk.code = "ok" THEN "ok"
                ELSE "CONCURRENCY_LIMIT"
    IN  /\ usages' = IF code = "ok" THEN mk.usages ELSE usages
        /\ poolLast' = [NoPoolOp EXCEPT !.op = "get-email",
                                        !.key = k, !.group = groupName,
                                        !.code = code,
                                        !.email = IF code = "ok" THEN r.id ELSE 0,
                                        !.prev = IF code = "ok"
                                                 THEN handedBefore(k) ELSE 0]
        /\ apiLogs' = logApiCall(apiLogs, now)
        /\ UNCHANGED nonPoolOpVars

\* /list-emails
ListEmails(k, groupName) ==
    /\ poolLast' = [NoPoolOp EXCEPT !.op = "list-emails",
                                    !.key = k, !.group = groupName,
                                    !.code = "ok", !.listed = list(groupName)]
    /\ apiLogs' = logApiCall(apiLogs, now)
    /\ UNCHANGED <<usages, nonPoolOpVars>>

\* /pool-stats
PoolStats(k, groupName) ==
    LET r == getStats(k, groupName)
    IN  /\ poolLast' = [NoPoolOp EXCEPT !.op = "pool-stats",
                                        !.key = k, !.group = groupName,
                                        !.code = r.code, !.stats = r.stats]
        /\ apiLogs' = logApiCall(apiLogs, now)
        /\ UNCHANGED <<usages, nonPoolOpVars>>

\* /reset-pool
ResetPool(k, groupName) ==
    LET r == reset(k, groupName)
    IN  /\ usages' = r.usages
        /\ poolLast' = [NoPoolOp EXCEPT !.op = "reset-pool",
                                        !.key = k, !.group = groupName,
                                        !.code = r.code,
                                        !.prev = IF r.code = "ok"
                                                 THEN handedJustBefore(k) ELSE 0]
        /\ apiLogs' = logApiCall(apiLogs, now)
        /\ UNCHANGED nonPoolOpVars

\* PUT /:id/pool-emails: updateEmailUsage(id, emailIds || []), no groupId.
UpdateEmailUsage(k, emailIds) ==
    LET r == updateEmailUsage(k, emailIds, NoGroupName)
    IN  /\ usages' = r.usages
        /\ poolLast' = [NoPoolOp EXCEPT !.op = "pool-emails",
                                        !.key = k, !.ids = emailIds,
                                        !.code = r.code]
        /\ UNCHANGED <<apiLogs, nonPoolOpVars>>

\* mailService.updateEmailStatus(emailId, success, errorMessage)
updateEmailStatus(emailId, success, errorMessage) ==
    updateStatus(emailId, IF success THEN "ACTIVE" ELSE "ERROR", errorMessage)

\* A fetch of mailbox m ended and wrote its status: the last operation on
\* the pool is now this write.
UpdateEmailStatus(m, success) ==
    LET r == updateEmailStatus(m, success,
                               IF success THEN NoText ELSE <<"error">>)
    IN  /\ emailStatus' = r.status
        /\ mailMeta' = r.meta
        /\ poolLast' = [NoPoolOp EXCEPT !.op = "status-write"]
        /\ UNCHANGED <<apiKeyScope, usages, calls, granted, fetchLast,
                       now, redisConfigured, redisFailed, rateVars, loginVars,
                       tokenVars, retentionVars, permVars, serviceVars>>

(***************************************************************************)
(* The mail fetching routes (/mail_new, /mail_all, /mail_text) over        *)
(* mailService.getEmails, one request at a time.  The mailbox of address e *)
(* is the mailbox with id e.                                               *)
(***************************************************************************)
FetchRoutes == {"mail_new", "mail_all", "mail_text"}

\* The messages of the errors the IMAP listing throws: blank, or a text.
ErrorTexts == {<<" ">>, <<"imap", " ", "error">>}

\* new AppError('IMAP_TOKEN_FAILED', 'Failed to get IMAP access token', 500)
ImapTokenFailedText == <<"Failed to get IMAP access token">>

\* getErrorMessage that hands on whatever message the error has (mutation).
getErrorMessageRaw(message) == message

\* getErrorMessage of the routes: the message when it is a string that is
\* not blank, 'Unknown error' otherwise.
getErrorMessage(message) ==
    IF trim(message) # NoText THEN message ELSE <<"Unknown error">>

\* mailService.getGraphAccessToken, as a function of the cache and of the
\* answer of the endpoint: a cached token counts as one with Mail.Read.
getGraphAccessToken(cache, e, resp, t) ==
    IF getCache(cache, e) # NoToken
    THEN [token |-> getCache(cache, e), hasMailRead |-> TRUE, cache |-> cache]
    ELSE exchangeGraphToken(cache, e, resp, t)

\* mailService.getImapAccessToken, likewise.
getImapAccessToken(cache, e, resp, t) ==
    IF getCache(cache, e) # NoToken
    THEN [token |-> getCache(cache, e), cache |-> cache]
    ELSE exchangeImapToken(cache, e, resp, t)

\* What the endpoints answer to one getEmails call: the two token exchanges,
\* the two listings ("ok" or "error") and the message of a listing error.
\* The Graph exchange fails, answers without a token, or answers with a
\* token with or without Mail.Read; the IMAP exchange has no scope.
FetchAnswers ==
    {a \in [graphResp : TokenResponses, graphList : {"ok", "error"},
            imapResp : TokenResponses, imapList : {"ok", "error"},
            message : ErrorTexts \cup {NoText}] :
        /\ a.graphResp.ttl = 1 /\ a.imapResp.ttl = 1
        /\ a.graphResp.scope \in {NoText, MailReadScope, <<"G/", "Mail.Send">>}
        /\ a.graphResp.hasToken <=> a.graphResp.scope # NoText
        /\ a.graphResp.hasToken => a.graphResp.ok
        /\ a.imapResp.scope = NoText
        /\ a.imapResp.ok <=> a.imapResp.hasToken
        /\ a.imapList = "ok" <=> a.message = NoText}

NoAnswers == [graphResp |-> [ok |-> FALSE, hasToken |-> FALSE, scope |-> NoText,
                             ttl |-> 1],
              graphList |-> "ok",
              imapResp |-> [ok |-> FALSE, hasToken |-> FALSE, scope |-> NoText,
                            ttl |-> 1],
              imapList |-> "ok", message |-> NoText]

\* getEmails that lets the error of the Graph listing escape (mutation).
getEmailsGraphOnly(e, a) ==
    LET g == getGraphAccessToken(graphCache, e, a.graphResp, now)
        useGraph == g.token # NoToken /\ g.hasMailRead
        i == getImapAccessToken(imapCache, e, a.imapResp, now)
        base == [method |-> "none", code |-> "ok", thrown |-> NoText,
                 graphToken |-> g.token, graphListed |-> "none",
                 imapAsked |-> FALSE, imapToken |-> NoToken,
                 imapListed |-> "none", steps |-> <<"graph_token">>,
                 graphCache |-> g.cache, imapCache |-> imapCache]
    IN  IF useGraph
        THEN IF a.graphList = "ok"
             THEN [base EXCEPT !.method = "graph_api", !.graphListed = "ok",
                               !.steps = <<"graph_token", "graph_list">>]
             ELSE [base EXCEPT !.code = "GRAPH_ERROR", !.graphListed = "error",
                               !.thrown = <<"Graph API error">>,
                               !.steps = <<"graph_token", "graph_list">>]
        ELSE IF i.token = NoToken
        THEN [base EXCEPT !.code = "IMAP_TOKEN_FAILED", !.imapAsked = TRUE,
                          !.thrown = ImapTokenFailedText,
                          !.steps = <<"graph_token", "imap_token">>,
                          !.imapCache = i.cache]
        ELSE [base EXCEPT !.method = IF a.imapList = "ok" THEN "imap" ELSE "none",
                          !.code = IF a.imapList = "ok" THEN "ok" ELSE "IMAP_ERROR",
                          !.thrown = a.message,
                          !.imapAsked = TRUE, !.imapToken = i.token,
                          !.imapListed = a.imapList,
                          !.steps = <<"graph_token", "imap_token", "imap_list">>,
                          !.imapCache = i.cache]

\* mailService.getEmails: the Graph token; with a token that has Mail.Read
\* the Graph listing, whose error is caught; then the IMAP token, the error
\* IMAP_TOKEN_FAILED without one, and the IMAP listing, whose error escapes.
getEmails(e, a) ==
    LET g == getGraphAccessToken(graphCache, e, a.graphResp, now)
        useGraph == g.token # NoToken /\ g.hasMailRead
        i == getImapAccessToken(imapCache, e, a.imapResp, now)
        before == IF useGraph THEN <<"graph_token", "graph_list">>
                  ELSE <<"graph_token">>
        base == [method |-> "none", code |-> "ok", thrown |-> NoText,
                 graphToken |-> g.token,
                 graphListed |-> IF useGraph THEN a.graphList ELSE "none",
                 imapAsked |-> FALSE, imapToken |-> NoToken,
                 imapListed |-> "none", steps |-> before,
                 graphCache |-> g.cache, imapCache |-> imapCache]
    IN  IF useGraph /\ a.graphList = "ok"
        THEN [base EXCEPT !.method = "graph_api"]
        ELSE IF i.token = NoToken
        THEN [base EXCEPT !.code = "IMAP_TOKEN_FAILED", !.imapAsked = TRUE,
                          !.thrown = ImapTokenFailedText,
                          !.steps = before \o <<"imap_token">>,
                          !.imapCache = i.cache]
        ELSE [base EXCEPT !.method = IF a.imapList = "ok" THEN "imap" ELSE "none",
                          !.code = IF a.imapList = "ok" THEN "ok" ELSE "IMAP_ERROR",
                          !.thrown = a.message,
                          !.imapAsked = TRUE, !.imapToken = i.token,
                          !.imapListed = a.imapList,
                          !.steps = before \o <<"imap_token", "imap_list">>,
                          !.imapCache = i.cache]

\* A request: whether the schema accepts it, whether the permission check
\* lets it through, the mailbox the address names (0 for none), and the
\* answers of the endpoints.
FetchRequests ==
    {q \in [valid : BOOLEAN, allowed : BOOLEAN, mailbox : {0} \cup Addresses,
            answers : FetchAnswers] :
        (~q.valid \/ ~q.allowed \/ q.mailbox = 0) =>
            /\ q.answers = NoAnswers
            /\ ~q.valid => (q.allowed /\ q.mailbox = 0)
            /\ ~q.allowed => q.mailbox = 0}

\* How far a request got: the schema, the permission check, the lookup of
\* the mailbox, the fetch.
stageOf(q) ==
    IF ~q.valid THEN "validation"
    ELSE IF ~q.allowed THEN "permission"
    ELSE IF q.mailbox = 0 THEN "lookup"
    ELSE "fetch"

\* The logApiCall calls of a route on each path: /mail_new and /mail_all parse,
\* check the permission and look the mailbox up outside their try block;
\* /mail_text logs a permission denial.
logCallsOf(route, stage) ==
    IF stage = "fetch" THEN 1
    ELSE IF stage = "permission" /\ route = "mail_text" THEN 1
    ELSE 0

NoFetch == [seq |-> 0, route |-> "none", stage |-> "none", mailbox |-> 0,
            method |-> "none", code |-> "none", thrown |-> NoText,
            graphToken |-> NoToken, graphListed |-> "none",
            imapAsked |-> FALSE, imapToken |-> NoToken, imapListed |-> "none",
            steps |-> <<>>, logged |-> 0]

\* What a fetching route leaves alone.
nonFetchVars == <<apiKeyScope, usages, calls, granted, poolLast, now,
                  redisConfigured, redisFailed, rateVars, loginVars, tokenLast,
                  running, retentionJob, retentionLast, permVars, serviceVars>>

\* /mail_new, /mail_all, /mail_text: the whole handler.
Fetch(route, q) ==
    LET stage == stageOf(q)
        e == q.mailbox
        r == getEmails(e, q.answers)
        w == IF r.code = "ok"
             THEN updateEmailStatus(e, TRUE, NoText)
             ELSE updateEmailStatus(e, FALSE, getErrorMessage(r.thrown))
        logged == logCallsOf(route, stage)
    IN  /\ IF stage = "fetch"
           THEN /\ graphCache' = r.graphCache
                /\ imapCache' = r.imapCache
                /\ emailStatus' = w.status
                /\ mailMeta' = w.meta
                /\ fetchLast' = [seq |-> 1 - fetchLast.seq, route |-> route,
                                 stage |-> stage, mailbox |-> e,
                                 method |-> r.method, code |-> r.code,
                                 thrown |-> r.thrown,
                                 graphToken |-> r.graphToken,
                                 graphListed |-> r.graphListed,
                                 imapAsked |-> r.imapAsked,
                                 imapToken |-> r.imapToken,
                                 imapListed |-> r.imapListed,
                                 steps |-> r.steps, logged |-> logged]
           ELSE /\ UNCHANGED <<graphCache, imapCache, emailStatus, mailMeta>>
                /\ fetchLast' = [NoFetch EXCEPT
                                    !.seq = 1 - fetchLast.seq, !.route = route,
                                    !.stage = stage,
                                    !.code = IF stage = "validation"
                                             THEN "VALIDATION_ERROR"
                                             ELSE IF stage = "permission"
                                             THEN "FORBIDDEN"
                                             ELSE "EMAIL_NOT_FOUND",
                                    !.logged = logged]
        /\ apiLogs' = IF logged > 0 THEN logApiCall(apiLogs, now) ELSE apiLogs
        /\ UNCHANGED nonFetchVars

(***************************************************************************)
(* The clock.                                                              *)
(***************************************************************************)
\* Time passes, and the shared store drops the cache entries whose time to
\* live is over.
Tick ==
    /\ now < MaxTime
    /\ now' = now + 1
    /\ graphCache' = expireCache(graphCache, now + 1)
    /\ imapCache' = expireCache(imapCache, now + 1)
    /\ UNCHANGED nonClockVars

(***************************************************************************)
(* The pool specification.                                                 *)
(***************************************************************************)
Scopes == [allowedGroupIds : SUBSET Groups, allowedEmailIds : SUBSET Mailboxes]

Unrestricted == [allowedGroupIds |-> {}, allowedEmailIds |-> {}]

\* The variables outside the pool, at rest.
PoolOnly ==
    /\ now = 0
    /\ redisConfigured = FALSE
    /\ redisFailed = FALSE
    /\ RateIdle
    /\ LoginIdle
    /\ TokenIdle
    /\ RetentionIdle
    /\ PermIdle
    /\ TwoFaIdle
    /\ MailboxIdle
    /\ CryptoIdle
    /\ ImapIdle
    /\ ParseIdle
    /\ TotpIdle
    /\ LoginPairIdle
    /\ LoginRaceIdle

\* The handlers have not run yet.
LastIdle ==
    /\ poolLast = NoPoolOp
    /\ fetchLast = NoFetch

PoolStart ==
    /\ emailStatus = [m \in Mailboxes |-> "ACTIVE"]
    /\ mailMeta = [m \in Mailboxes |-> NoMeta]
    /\ LastIdle
    /\ usages = [k \in ApiKeys |-> [m \in Mailboxes |-> 0]]
    /\ calls = [c \in CallIds |-> IdleCall]
    /\ granted = [k \in ApiKeys |-> [m \in Mailboxes |-> 0]]

\* Concurrent requests: key 1 is unrestricted or limited to the first two
\* mailboxes, the other keys are unrestricted.
PoolInit ==
    /\ PoolStart
    /\ PoolOnly
    /\ apiKeyScope \in
          {f \in [ApiKeys -> Scopes] :
              /\ f[1] \in {Unrestricted,
                            [allowedGroupIds |-> {}, allowedEmailIds |-> {1, 2}]}
              /\ \A k \in ApiKeys \ {1} : f[k] = Unrestricted}

\* One request at a time: key 1 has any scope, the other keys are unrestricted.
ScopeInit ==
    /\ PoolStart
    /\ PoolOnly
    /\ apiKeyScope \in
          {f \in [ApiKeys -> Scopes] :
              \A k \in ApiKeys \ {1} : f[k] = Unrestricted}

Init == PoolInit

Next ==
    \/ \E c \in CallIds, k \in ApiKeys, g \in GroupNames : GetEmailBegin(c, k, g)
    \/ \E c \in CallIds : GetEmailAllocate(c)
    \/ \E c \in CallIds : GetEmailMarkOk(c)
    \/ \E c \in CallIds : GetEmailMarkConflict(c)
    \/ \E c \in CallIds : GetEmailMarkError(c)
    \/ \E c \in CallIds : GetEmailReturn(c)
    \/ \E m \in Mailboxes, s \in {"ACTIVE", "ERROR"} : UpdateStatus(m, s)

Spec == Init /\ [][Next]_vars

\* The same handlers with one request in flight at a time (slot 1).
NextScope ==
    \/ \E k \in ApiKeys, g \in GroupNames : GetEmailBegin(1, k, g)
    \/ GetEmailAllocate(1)
    \/ GetEmailMarkOk(1)
    \/ GetEmailMarkError(1)
    \/ GetEmailReturn(1)
    \/ \E m \in Mailboxes, s \in {"ACTIVE", "ERROR"} : UpdateStatus(m, s)

SpecScope == ScopeInit /\ [][NextScope]_vars

(***************************************************************************)
(* Claims about the pool allocator.                                        *)
(***************************************************************************)
\* C1: under every interleaving of /get-email requests no two of them succeed
\* with the same (apiKeyId, emailAccountId) pair: each pair has at most one
\* EmailUsage row, at most one response handed it out, and every response
\* that handed it out has its row (a colliding markUsed did not succeed).
ExactlyOnceAllocation ==
    \A k \in ApiKeys, m \in Mailboxes :
        /\ usages[k][m] <= 1
        /\ granted[k][m] <= 1
        /\ granted[k][m] <= usages[k][m]

\* Two requests of one key raced for a mailbox: one lost (its markUsed hit
\* ALREADY_USED), retried, and both ended with different mailboxes.
ExactlyOnceWitness ==
    \E c1 \in CallIds, c2 \in CallIds :
        /\ c1 # c2
        /\ calls[c1].pc = "done" /\ calls[c1].code = "ok"
        /\ calls[c2].pc = "done" /\ calls[c2].code = "ok"
        /\ calls[c1].key = calls[c2].key
        /\ calls[c2].i >= 1
        /\ calls[c1].email # calls[c2].email

\* isEmailInScope: the two allow-lists of a key, on a mailbox.
InResolvedScope(k, m) ==
    /\ Restricted(apiKeyScope[k].allowedGroupIds)
           => emailGroup(m) \in apiKeyScope[k].allowedGroupIds
    /\ Restricted(apiKeyScope[k].allowedEmailIds)
           => m \in apiKeyScope[k].allowedEmailIds

\* C2: the mailbox getUnusedEmail returns is inside the scope of the key:
\* its group is in a non-empty allowedGroupIds and its id is in a non-empty
\* allowedEmailIds, for every scope, group filter and pool state.
ScopeClosure ==
    \A c \in CallIds :
        calls[c].email # 0 => InResolvedScope(calls[c].key, calls[c].email)

\* getUnusedEmail returned a mailbox of a key with both lists set while a
\* lower-id ACTIVE unused mailbox outside the scope existed.
ScopeClosureWitness ==
    \E c \in CallIds :
        /\ calls[c].pc = "mark"
        /\ Restricted(apiKeyScope[calls[c].key].allowedGroupIds)
        /\ Restricted(apiKeyScope[calls[c].key].allowedEmailIds)
        /\ \E m \in Mailboxes :
              /\ m < calls[c].email
              /\ emailStatus[m] = "ACTIVE"
              /\ usages[calls[c].key][m] = 0
              /\ ~InResolvedScope(calls[c].key, m)

(***************************************************************************)
(* The rate limiter specification.                                         *)
(***************************************************************************)
PoolIdle ==
    /\ PoolStart
    /\ apiKeyScope = [k \in ApiKeys |-> Unrestricted]

RateInit ==
    /\ PoolIdle
    /\ now = 0
    /\ redisConfigured \in BOOLEAN
    /\ redisFailed = FALSE
    /\ rateLimit \in 1..MaxRate
    /\ rateRedis = [b \in 0..minuteBucket(MaxTime) |-> 0]
    /\ rateLocal = NoLocalRate
    /\ admitted = [t \in Ticks |-> 0]
    /\ rateLast = NoRateCall
    /\ usage = NoUsage
    /\ LoginIdle
    /\ TokenIdle
    /\ RetentionIdle
    /\ PermIdle
    /\ TwoFaIdle
    /\ MailboxIdle
    /\ CryptoIdle
    /\ ImapIdle
    /\ ParseIdle
    /\ TotpIdle
    /\ LoginPairIdle
    /\ LoginRaceIdle

NextRate ==
    \/ \E p \in Presented, fault \in RedisFaults : AuthenticateApiKey(p, fault)
    \/ Tick

SpecRate == RateInit /\ [][NextRate]_vars

RECURSIVE admittedBetween(_, _)
admittedBetween(from, to) ==
    IF from > to THEN 0 ELSE admitted[from] + admittedBetween(from + 1, to)

\* The calls admitted in the minute that starts at tick t.
admittedInWindow(t) == admittedBetween(t, t + MinuteTicks - 1)

WindowStarts == 0..(MaxTime - MinuteTicks + 1)

SharedStoreRejectsNext ==
    (redisConfigured /\ ~redisFailed /\ rateLast.limited) =>
        /\ rateLast.nth <= rateLimit => rateLast.code = "ok"
        /\ rateLast.nth = rateLimit + 1 => rateLast.code = "RATE_LIMIT_EXCEEDED"

(***************************************************************************)
(* The login specification.                                                *)
(***************************************************************************)
LoginInit ==
    /\ PoolIdle
    /\ RateIdle
    /\ TokenIdle
    /\ RetentionIdle
    /\ PermIdle
    /\ TwoFaIdle
    /\ MailboxIdle
    /\ CryptoIdle
    /\ ImapIdle
    /\ ParseIdle
    /\ TotpIdle
    /\ LoginPairIdle
    /\ LoginRaceIdle
    /\ now = 0
    /\ redisConfigured \in BOOLEAN
    /\ redisFailed = FALSE
    /\ maxLoginAttempts \in 1..MaxLoginAttempts
    /\ loginAdmin \in AdminAccounts
    /\ loginRedis = NoLoginRedis
    /\ loginLocal = NoLoginLocal
    /\ loginLast = NoLogin
    /\ loginStreak = NoStreak

NextLogin ==
    \/ \E in \in LoginInputs : Login(in)
    \/ Tick

SpecLogin == LoginInit /\ [][NextLogin]_vars

\* The failure counters of the key are cleared.
loginCounterCleared ==
    /\ liveLoginRedis(loginRedis, now).attempts = 0
    /\ loginLocal.present => loginLocal.count = 0

\* A lock that lasts one lock window from the last login is set.
loginLockSet ==
    \/ loginRedis.lockExpireAt = loginLast.at + LockTicks
    \/ loginLocal.present /\ loginLocal.lockedUntil = loginLast.at + LockTicks

\* C5 (as stated, while no call to the shared store has thrown): of
\* maxLoginAttempts consecutive failed logins inside one window, all but the
\* last fail with INVALID_CREDENTIALS (INVALID_OTP for a wrong code) and the
\* last fails with ACCOUNT_LOCKED, clears the counter and sets the lock.
LockAtMaxAttempts ==
    (~redisFailed /\ loginLast.nth > 0) =>
        /\ loginLast.nth < maxLoginAttempts =>
               loginLast.code \in {"INVALID_CREDENTIALS", "INVALID_OTP"}
        /\ loginLast.nth = maxLoginAttempts =>
               /\ loginLast.code = "ACCOUNT_LOCKED"
               /\ loginCounterCleared
               /\ loginLockSet

\* A login of the key happens in this step.
loginStep == loginLast'.seq # loginLast.seq

\* The login of this step is rejected at the lock check and changes nothing.
rejectedUnchanged ==
    /\ loginLast'.code = "ACCOUNT_LOCKED"
    /\ ~loginLast'.verified
    /\ ~loginLast'.token
    /\ loginRedis' = loginRedis
    /\ loginLocal' = loginLocal

loginSucceeds == loginStep /\ loginLast'.code = "ok"

\* The login of this step is a counted failure that sets the lock.
loginLocks ==
    /\ loginStep
    /\ loginLast'.code = "ACCOUNT_LOCKED"
    /\ loginLast'.verified

TokenNeedsOtp ==
    loginLast.token =>
        /\ loginLast.password
        /\ (loginAdmin.twoFactor # "off" \/ loginAdmin.legacy2Fa)
               => loginLast.otp = "valid"

\* The login of this step has the password of an active account with
\* two-factor authentication enabled and a readable secret, carries no otp,
\* and finds no lock on its key.
loginWithoutOtp ==
    /\ loginStep
    /\ loginAdmin.status = "ACTIVE"
    /\ loginAdmin.twoFactor = "on"
    /\ loginLast'.password
    /\ loginLast'.otp = "none"
    /\ ~lockActive(liveLoginRedis(loginRedis, now), loginLocal, now)

TwoFaInit ==
    /\ PoolIdle
    /\ RateIdle
    /\ LoginIdle
    /\ TokenIdle
    /\ RetentionIdle
    /\ PermIdle
    /\ TwoFaIdle
    /\ MailboxIdle
    /\ CryptoIdle
    /\ ImapIdle
    /\ ParseIdle
    /\ TotpIdle
    /\ LoginPairIdle
    /\ LoginRaceIdle
    /\ now = 0
    /\ redisConfigured = FALSE
    /\ redisFailed = FALSE

NextTwoFa ==
    \/ \E c \in TwoFaCallIds : SetupTwoFactorBegin(c)
    \/ \E c \in TwoFaCallIds : SetupTwoFactorCommit(c)
    \/ \E c \in TwoFaCallIds, otp \in TwoFaOtps : EnableTwoFactorBegin(c, otp)
    \/ \E c \in TwoFaCallIds : EnableTwoFactorCommit(c)
    \/ \E c \in TwoFaCallIds, password \in BOOLEAN, otp \in TwoFaOtps :
           DisableTwoFactorBegin(c, password, otp)
    \/ \E c \in TwoFaCallIds : DisableTwoFactorCommit(c)
    \/ \E c \in TwoFaCallIds, set \in TwoFactorUpdates : AdminUpdateBegin(c, set)
    \/ \E c \in TwoFaCallIds : AdminUpdateCommit(c)
    \/ Logout

SpecTwoFa == TwoFaInit /\ [][NextTwoFa]_vars

\* C22: the two-factor state of the account changes only from Disabled to
\* Pending by a setup, from Pending to Enabled by an enable that verified the
\* code of the pending secret, and from Enabled to Disabled by a disable with
\* the password and the code of the active secret; no other call changes it.
TwoFaTransitions ==
    [][TwoFaState(twoFa') # TwoFaState(twoFa) =>
          \/ /\ TwoFaState(twoFa) = "Disabled"
             /\ TwoFaState(twoFa') = "Pending"
             /\ twoFaLast'.op = "setup"
          \/ /\ TwoFaState(twoFa) = "Pending"
             /\ TwoFaState(twoFa') = "Enabled"
             /\ twoFaLast'.op = "enable"
             /\ twoFaLast'.otp = twoFa.temp
          \/ /\ TwoFaState(twoFa) = "Enabled"
             /\ TwoFaState(twoFa') = "Disabled"
             /\ twoFaLast'.op = "disable"
             /\ twoFaLast'.password
             /\ twoFaLast'.otp = twoFa.secret]_vars

\* C23: an enable before any setup fails with TWO_FACTOR_SETUP_REQUIRED and
\* enables nothing; and under every interleaving of setup and enable, an
\* enabled account has as its active secret the pending secret whose code was
\* verified, and no pending secret.
EnabledFromVerifiedPending ==
    /\ twoFaIssued = 0 =>
           /\ ~twoFa.enabled
           /\ twoFaLast.op = "enable" => twoFaLast.code = "TWO_FACTOR_SETUP_REQUIRED"
    /\ twoFa.enabled =>
           /\ twoFa.secret # NoSecret
           /\ twoFa.secret = twoFaVerified
           /\ twoFa.temp = NoSecret

\* C26: a logout leaves no pending secret, and an enable succeeds only with
\* the code of the secret that is pending when it enables: after a second
\* setup, the secret of the first no longer enables.
PendingDiscarded ==
    [][/\ (twoFaLast' # twoFaLast /\ twoFaLast'.op = "logout") =>
              twoFa'.temp = NoSecret
       /\ (twoFaLast' # twoFaLast /\ twoFaLast'.op = "enable"
             /\ twoFaLast'.otp # NoSecret) =>
              twoFaLast'.otp = twoFa.temp]_vars

(***************************************************************************)
(* The token cache specification.                                          *)
(***************************************************************************)
TokenInit ==
    /\ PoolIdle
    /\ RateIdle
    /\ LoginIdle
    /\ TokenIdle
    /\ RetentionIdle
    /\ PermIdle
    /\ TwoFaIdle
    /\ MailboxIdle
    /\ CryptoIdle
    /\ ImapIdle
    /\ ParseIdle
    /\ TotpIdle
    /\ LoginPairIdle
    /\ LoginRaceIdle
    /\ now = 0
    /\ redisConfigured = TRUE
    /\ redisFailed = FALSE

NextToken ==
    \/ \E e \in Addresses, resp \in TokenResponses : GetGraphAccessToken(e, resp)
    \/ \E e \in Addresses, resp \in TokenResponses : GetImapAccessToken(e, resp)
    \/ Tick

SpecToken == TokenInit /\ [][NextToken]_vars

(***************************************************************************)
(* Claims about the token cache.                                           *)
(***************************************************************************)
\* Every graph entry holds a token of a Graph exchange whose scope string
\* contained the Mail.Read scope.
graphEntriesHaveMailRead ==
    \A e \in Addresses :
        graphCache[e].token # NoToken =>
            /\ graphCache[e].token.kind = "graph"
            /\ includes(graphCache[e].token.scope, MailReadScope)

\* A step that puts a token under a graph key is a getGraphAccessToken call
\* for that address whose response was 2xx, carried an access_token and a
\* scope string with the Mail.Read scope.
graphWriteHasMailRead ==
    \A e \in Addresses :
        (graphCache'[e] # graphCache[e] /\ graphCache'[e].token # NoToken) =>
            /\ tokenLast'.kind = "graph"
            /\ tokenLast'.address = e
            /\ ~tokenLast'.cached
            /\ tokenLast'.resp.ok
            /\ tokenLast'.resp.hasToken
            /\ includes(tokenLast'.resp.scope, MailReadScope)

\* C7: in every reachable state a graph_token entry holds only a token whose
\* response scope contained https://graph.microsoft.com/Mail.Read, and a
\* response without that scope, without access_token, or non-2xx never
\* writes the entry.
CacheScopeCorrect ==
    []graphEntriesHaveMailRead /\ [][graphWriteHasMailRead]_vars

\* The endpoint answered a Graph exchange with a token whose scope is
\* Mail.Send alone: the call returned the token and left the graph entry of
\* the address empty.
CacheScopeWitness ==
    /\ tokenLast.kind = "graph"
    /\ ~tokenLast.cached
    /\ tokenLast.resp.ok
    /\ tokenLast.resp.hasToken
    /\ tokenLast.resp.scope = <<"G/", "Mail.Send">>
    /\ tokenLast.token # NoToken
    /\ graphCache[tokenLast.address] = NoEntry

(***************************************************************************)
(* The retention specification.                                            *)
(***************************************************************************)
RetentionInit ==
    /\ PoolIdle
    /\ RateIdle
    /\ LoginIdle
    /\ TokenIdle
    /\ RetentionIdle
    /\ PermIdle
    /\ TwoFaIdle
    /\ MailboxIdle
    /\ CryptoIdle
    /\ ImapIdle
    /\ ParseIdle
    /\ TotpIdle
    /\ LoginPairIdle
    /\ LoginRaceIdle
    /\ now = 0
    /\ redisConfigured = FALSE
    /\ redisFailed = FALSE

NextRetention ==
    \/ LogApiCall
    \/ RetentionBegin
    \/ RetentionDeleted
    \/ RetentionFailed
    \/ Tick

SpecRetention == RetentionInit /\ [][NextRetention]_vars

PermInit ==
    /\ PoolIdle
    /\ RateIdle
    /\ LoginIdle
    /\ TokenIdle
    /\ RetentionIdle
    /\ now = 0
    /\ redisConfigured = FALSE
    /\ redisFailed = FALSE
    /\ TwoFaIdle
    /\ MailboxIdle
    /\ CryptoIdle
    /\ ImapIdle
    /\ ParseIdle
    /\ TotpIdle
    /\ LoginPairIdle
    /\ LoginRaceIdle
    /\ permMap \in PermissionMaps
    /\ permAction = <<>>
    /\ permResult = "none"

NextPerm == \E action \in ActionSamples : CheckApiPermission(action)

SpecPerm == PermInit /\ [][NextPerm]_vars

\* The rules of the decision table, on a map and an action.
ruleMatches(i, permissions, action) ==
    LET key == normalizeApiPermissionKey(action)
        hyphenated == replaceAll(key, "_", "-")
        has(k, vs) == /\ permissions.defined
                      /\ k \in DOMAIN permissions.entries
                      /\ permissions.entries[k] \in vs
    IN  CASE i = 1 -> ~permissions.defined \/ DOMAIN permissions.entries = {}
          [] i = 2 -> \E w \in WILDCARD_KEYS : has(w, {"true"})
          [] i = 3 -> has(key, {"true", "false"})
          [] i = 4 -> has(hyphenated, {"true", "false"})
          [] OTHER -> TRUE

\* The first rule that matches.
firstRule(permissions, action) ==
    CHOOSE i \in 1..5 :
        /\ ruleMatches(i, permissions, action)
        /\ \A j \in 1..(i - 1) : ~ruleMatches(j, permissions, action)

\* The decision of the table: allow, allow, the stored value, the stored
\* value under the hyphenated key, deny.
decisionTable(permissions, action) ==
    LET key == normalizeApiPermissionKey(action)
        i == firstRule(permissions, action)
    IN  CASE i \in {1, 2} -> "allow"
          [] i = 3 -> IF permissions.entries[key] = "true" THEN "allow" ELSE "deny"
          [] i = 4 -> IF permissions.entries[replaceAll(key, "_", "-")] = "true"
                      THEN "allow" ELSE "deny"
          [] OTHER -> "deny"

\* C9: isApiPermissionAllowed answers what the first matching rule of the
\* decision table answers, for every map and action.
DecisionTableHolds ==
    permResult # "none" => permResult = decisionTable(permMap, permAction)

\* A wildcard mapped to true allowed an action that the map explicitly
\* denies.
DecisionTableWitness ==
    /\ permResult = "allow"
    /\ permMap.defined
    /\ firstRule(permMap, permAction) = 2
    /\ normalizeApiPermissionKey(permAction) \in DOMAIN permMap.entries
    /\ permMap.entries[normalizeApiPermissionKey(permAction)] = "false"

\* C10: two action strings that normalize to the same key get the same
\* decision from every map.
SameKeySameDecision ==
    permResult # "none" =>
        \A other \in ActionSamples :
            normalizeApiPermissionKey(other) = normalizeApiPermissionKey(permAction)
                => isApiPermissionAllowed(permMap, other) = (permResult = "allow")

\* An action written in upper case, with hyphens and spaces around it, was
\* allowed by the entry of its normalized key.
SameKeyWitness ==
    /\ permResult = "allow"
    /\ permAction = <<" ", "MAIL", "-", "ALL", " ">>
    /\ firstRule(permMap, permAction) = 3

(***************************************************************************)
(* The pool operations specification.                                      *)
(***************************************************************************)
\* Key 1 has no restriction, or is limited to group 1, or to the first two
\* mailboxes; the other keys are unrestricted.
PoolOpsInit ==
    /\ PoolStart
    /\ PoolOnly
    /\ apiKeyScope \in
          {f \in [ApiKeys -> Scopes] :
              /\ f[1] \in {Unrestricted,
                            [allowedGroupIds |-> {1}, allowedEmailIds |-> {}],
                            [allowedGroupIds |-> {}, allowedEmailIds |-> {1, 2}]}
              /\ \A k \in ApiKeys \ {1} : f[k] = Unrestricted}

NextPool ==
    \/ \E k \in ApiKeys, g \in GroupNames : GetEmail(k, g)
    \/ \E k \in ApiKeys, g \in GroupNames : ListEmails(k, g)
    \/ \E k \in ApiKeys, g \in GroupNames : PoolStats(k, g)
    \/ \E k \in ApiKeys, g \in GroupNames : ResetPool(k, g)
    \/ \E k \in ApiKeys, emailIds \in RequestedIdSets : UpdateEmailUsage(k, emailIds)
    \/ \E m \in Mailboxes, success \in BOOLEAN : UpdateEmailStatus(m, success)

SpecPool == PoolOpsInit /\ [][NextPool]_vars

\* A step that is the pool operation op (an operation that repeats the one
\* before it, with the same result and no effect, is no step).
poolStep(op) ==
    /\ poolLast'.op = op
    /\ poolLast' # poolLast \/ usages' # usages

\* The mailboxes of the group filter (all of them without one).
inGroupFilter(m, groupName) ==
    groupName # NoGroupName => emailGroup(m) = groupName

\* The mailboxes a /get-email of key k with filter groupName may return:
\* ACTIVE, in the scope of the key, in the group, not assigned to the key.
eligible(k, groupName) ==
    {m \in Mailboxes :
        /\ emailStatus[m] = "ACTIVE"
        /\ InResolvedScope(k, m)
        /\ inGroupFilter(m, groupName)
        /\ usages[k][m] = 0}

returnsLowestEligible ==
    (poolStep("get-email") /\ poolLast'.code = "ok") =>
        /\ eligible(poolLast'.key, poolLast'.group) # {}
        /\ \A m \in eligible(poolLast'.key, poolLast'.group) :
              poolLast'.email <= m
        /\ poolLast'.email \in eligible(poolLast'.key, poolLast'.group)

GroupFilterForbidden ==
    [][\A op \in {"get-email", "list-emails", "pool-stats", "reset-pool"} :
          (/\ poolStep(op)
           /\ Restricted(apiKeyScope[poolLast'.key].allowedGroupIds)
           /\ poolLast'.group \in Groups
           /\ poolLast'.group \notin apiKeyScope[poolLast'.key].allowedGroupIds)
              => /\ poolLast'.code = "GROUP_FORBIDDEN"
                 /\ poolLast'.email = 0
                 /\ poolLast'.listed = {}
                 /\ poolLast'.stats = NoStats
                 /\ usages' = usages]_vars

\* The mailboxes assigned to key k.
assignedTo(u, k) == {m \in Mailboxes : u[k][m] > 0}

\* C18: after updateEmailUsage(k, S) succeeded, for a set S of mailbox ids,
\* the mailboxes assigned to k are exactly S and the rows of the other keys
\* are as before.
PoolReplacedBySupplied ==
    [][(poolStep("pool-emails") /\ poolLast'.code = "ok"
        /\ poolLast'.ids \subseteq Mailboxes)
          => /\ assignedTo(usages', poolLast'.key) = poolLast'.ids
             /\ \A k \in ApiKeys \ {poolLast'.key} : usages'[k] = usages[k]]_vars

\* C19: updateEmailUsage with a mailbox id outside the scope of the key fails
\* with EMAIL_FORBIDDEN and leaves every EmailUsage row as it was.
OutOfScopeUpdateRejected ==
    [][(/\ poolStep("pool-emails")
        /\ \E id \in poolLast'.ids :
              /\ id > 0
              /\ id \in Mailboxes => ~InResolvedScope(poolLast'.key, id))
          => /\ poolLast'.code = "EMAIL_FORBIDDEN"
             /\ usages' = usages]_vars

\* A key limited to the first two mailboxes, with mailbox 1 assigned, was
\* refused a pool of mailbox 2 and mailbox 3: mailbox 1 is still its only one.
OutOfScopeUpdateWitness ==
    /\ poolLast.op = "pool-emails"
    /\ poolLast.code = "EMAIL_FORBIDDEN"
    /\ poolLast.ids = {2, 3}
    /\ apiKeyScope[poolLast.key].allowedEmailIds = {1, 2}
    /\ assignedTo(usages, poolLast.key) = {1}

\* C20: reset(k, group) removes the rows of k on the mailboxes in the scope
\* of k and in the group, and leaves every other row as it was.
ResetRemovesScoped ==
    [][(poolStep("reset-pool") /\ poolLast'.code = "ok")
          => /\ \A m \in Mailboxes :
                   usages'[poolLast'.key][m] =
                      IF /\ InResolvedScope(poolLast'.key, m)
                         /\ inGroupFilter(m, poolLast'.group)
                      THEN 0 ELSE usages[poolLast'.key][m]
             /\ \A k \in ApiKeys \ {poolLast'.key} : usages'[k] = usages[k]]_vars

(***************************************************************************)
(* Two concurrent /get-email requests.                                     *)
(***************************************************************************)
\* The two request slots of the race.
RaceCalls == {1, 2}

\* Any mailbox may be in error at the start; no mailbox is assigned.
RaceInit ==
    /\ emailStatus \in [Mailboxes -> {"ACTIVE", "ERROR"}]
    /\ mailMeta = [m \in Mailboxes |-> NoMeta]
    /\ LastIdle
    /\ usages = [k \in ApiKeys |-> [m \in Mailboxes |-> 0]]
    /\ calls = [c \in CallIds |-> IdleCall]
    /\ granted = [k \in ApiKeys |-> [m \in Mailboxes |-> 0]]
    /\ PoolOnly
    /\ apiKeyScope \in
          {f \in [ApiKeys -> Scopes] :
              /\ f[1] \in {Unrestricted,
                            [allowedGroupIds |-> {}, allowedEmailIds |-> {1, 2}]}
              /\ \A k \in ApiKeys \ {1} : f[k] = Unrestricted}

\* Each slot serves one request, which stays at its response.
NextRace ==
    \/ \E c \in RaceCalls, k \in ApiKeys, g \in GroupNames : GetEmailBegin(c, k, g)
    \/ \E c \in RaceCalls : GetEmailAllocate(c)
    \/ \E c \in RaceCalls : GetEmailMarkOk(c)
    \/ \E c \in RaceCalls : GetEmailMarkConflict(c)

SpecRace == RaceInit /\ [][NextRace]_vars

\* The mailboxes that were eligible for (k, groupName) when the race began.
eligibleAtStart(k, groupName) ==
    {m \in Mailboxes :
        /\ emailStatus[m] = "ACTIVE"
        /\ InResolvedScope(k, m)
        /\ inGroupFilter(m, groupName)}

\* C17: two concurrent /get-email requests of one key, each with at least two
\* eligible mailboxes, both succeed, with different mailboxes: none ends with
\* ALREADY_USED or CONCURRENCY_LIMIT.
RaceResolved ==
    \A c1 \in RaceCalls, c2 \in RaceCalls :
        (/\ c1 # c2
         /\ calls[c1].pc = "done" /\ calls[c2].pc = "done"
         /\ calls[c1].key = calls[c2].key
         /\ Cardinality(eligibleAtStart(calls[c1].key, calls[c1].group)) >= 2
         /\ Cardinality(eligibleAtStart(calls[c2].key, calls[c2].group)) >= 2)
            => /\ calls[c1].code = "ok" /\ calls[c2].code = "ok"
               /\ calls[c1].email # calls[c2].email

\* Both requests selected the lowest mailbox; the second markUsed hit
\* ALREADY_USED, and its next pass returned the next mailbox.
RaceWitness ==
    /\ calls[1].pc = "done" /\ calls[2].pc = "done"
    /\ calls[1].key = calls[2].key
    /\ calls[1].code = "ok" /\ calls[2].code = "ok"
    /\ calls[1].i = 0 /\ calls[2].i = 1
    /\ calls[1].email = Min(eligibleAtStart(calls[1].key, calls[1].group))
    /\ calls[2].email > calls[1].email

(***************************************************************************)
(* The mail fetching specification.                                        *)
(***************************************************************************)
FetchInit ==
    /\ PoolIdle
    /\ RateIdle
    /\ LoginIdle
    /\ TokenIdle
    /\ RetentionIdle
    /\ PermIdle
    /\ TwoFaIdle
    /\ MailboxIdle
    /\ CryptoIdle
    /\ ImapIdle
    /\ ParseIdle
    /\ TotpIdle
    /\ LoginPairIdle
    /\ LoginRaceIdle
    /\ now = 0
    /\ redisConfigured = TRUE
    /\ redisFailed = FALSE

NextFetch ==
    \/ \E route \in FetchRoutes, q \in FetchRequests : Fetch(route, q)
    \/ Tick

SpecFetch == FetchInit /\ [][NextFetch]_vars

\* The last request reached getEmails.
fetched == fetchLast.stage = "fetch"

\* C13: getEmails returns method 'graph_api' only with a Graph token whose
\* scope included Mail.Read and a Graph listing that succeeded; in every
\* other case no Graph error leaves getEmails and the IMAP token is asked
\* for after the Graph steps: the method is 'imap' when the IMAP listing
\* succeeds, and the error is IMAP_TOKEN_FAILED exactly when there is no
\* IMAP token.
GraphThenImap ==
    fetched =>
        /\ fetchLast.steps[1] = "graph_token"
        /\ fetchLast.method = "graph_api" =>
               /\ fetchLast.graphToken # NoToken
               /\ includes(fetchLast.graphToken.scope, MailReadScope)
               /\ fetchLast.graphListed = "ok"
               /\ ~fetchLast.imapAsked
               /\ fetchLast.code = "ok"
        /\ (\/ fetchLast.graphToken = NoToken
            \/ ~includes(fetchLast.graphToken.scope, MailReadScope)
            \/ fetchLast.graphListed = "error") =>
               /\ fetchLast.code \in {"ok", "IMAP_TOKEN_FAILED", "IMAP_ERROR"}
               /\ fetchLast.method # "graph_api"
               /\ fetchLast.imapAsked
               /\ fetchLast.steps[Len(fetchLast.steps)] \in {"imap_token", "imap_list"}
               /\ (fetchLast.imapToken # NoToken /\ fetchLast.imapListed = "ok") =>
                      (fetchLast.method = "imap" /\ fetchLast.code = "ok")
        /\ fetchLast.method = "imap" =>
               (fetchLast.imapToken # NoToken /\ fetchLast.imapListed = "ok")
        /\ fetchLast.code = "IMAP_TOKEN_FAILED" <=>
               (fetchLast.imapAsked /\ fetchLast.imapToken = NoToken)

\* The Graph listing failed with a token that has Mail.Read, and the mail
\* came over IMAP.
GraphThenImapWitness ==
    /\ fetched
    /\ fetchLast.graphToken # NoToken
    /\ fetchLast.graphListed = "error"
    /\ fetchLast.steps = <<"graph_token", "graph_list", "imap_token", "imap_list">>
    /\ fetchLast.method = "imap"
    /\ fetchLast.code = "ok"

\* A step that is a request which reached getEmails.
fetchStep == fetchLast'.seq # fetchLast.seq /\ fetchLast'.stage = "fetch"

\* The write of the status leaves the other mailboxes alone and sets
\* lastCheckAt of the mailbox with the status.
statusWrittenOnce ==
    /\ mailMeta'[fetchLast'.mailbox].lastCheckAt = now
    /\ \A m \in Mailboxes \ {fetchLast'.mailbox} :
          emailStatus'[m] = emailStatus[m] /\ mailMeta'[m] = mailMeta[m]

\* C14 (as stated): after a fetch of an existing mailbox the mailbox is
\* ACTIVE with no error message when getEmails returned, and ERROR with the
\* message of the exception when it threw; lastCheckAt is set in that write.
StatusFollowsFetch ==
    [][fetchStep =>
          /\ statusWrittenOnce
          /\ IF fetchLast'.code = "ok"
             THEN /\ emailStatus'[fetchLast'.mailbox] = "ACTIVE"
                  /\ mailMeta'[fetchLast'.mailbox].errorMessage = NullMessage
             ELSE /\ emailStatus'[fetchLast'.mailbox] = "ERROR"
                  /\ mailMeta'[fetchLast'.mailbox].errorMessage =
                        [isNull |-> FALSE, text |-> fetchLast'.thrown]]_vars

\* C14 (amended): as above, but the message stored with ERROR is the message
\* of the exception when that is a text that is not blank, and
\* 'Unknown error' otherwise.
StatusFollowsFetchOrUnknown ==
    [][fetchStep =>
          /\ statusWrittenOnce
          /\ IF fetchLast'.code = "ok"
             THEN /\ emailStatus'[fetchLast'.mailbox] = "ACTIVE"
                  /\ mailMeta'[fetchLast'.mailbox].errorMessage = NullMessage
             ELSE /\ emailStatus'[fetchLast'.mailbox] = "ERROR"
                  /\ mailMeta'[fetchLast'.mailbox].errorMessage =
                        [isNull |-> FALSE,
                         text |-> IF \E i \in 1..Len(fetchLast'.thrown) :
                                        fetchLast'.thrown[i] # " "
                                  THEN fetchLast'.thrown
                                  ELSE <<"Unknown error">>]]_vars

\* After the clock moved, the IMAP listing threw an error with a blank
\* message: the mailbox is in ERROR with 'Unknown error', checked now.
StatusFollowsFetchWitness ==
    /\ fetched
    /\ now > 0
    /\ fetchLast.code = "IMAP_ERROR"
    /\ fetchLast.thrown = <<" ">>
    /\ emailStatus[fetchLast.mailbox] = "ERROR"
    /\ mailMeta[fetchLast.mailbox].errorMessage =
          [isNull |-> FALSE, text |-> <<"Unknown error">>]
    /\ mailMeta[fetchLast.mailbox].lastCheckAt = now

\* C16: every request of a fetching route that passed the key check ends,
\* on each of its paths (validation failure, permission denial, unknown
\* mailbox, upstream failure, success), with exactly one logApiCall.
OneLogPerRequest ==
    fetchLast.route # "none" => fetchLast.logged = 1

(***************************************************************************)
(* Claims about authenticateApiKey.                                        *)
(***************************************************************************)
\* A step that is one run of authenticateApiKey.
authStep == rateLast'.seq = rateLast.seq + 1

\* C15: authenticateApiKey answers an unknown key with INVALID_API_KEY, then
\* a key that is not ACTIVE with API_KEY_DISABLED, then an expired key with
\* API_KEY_EXPIRED, and only then runs the limiter; a rejected request
\* leaves usageCount and lastUsedAt as they were, one rejected before the
\* limiter leaves the counters of the limiter as they were, and an admitted
\* request adds exactly 1 to usageCount.
RejectsBeforeCounting ==
    [][authStep =>
          LET p == rateLast'.presented
              code == rateLast'.code
          IN  /\ (p.given /\ ~p.known) => code = "INVALID_API_KEY"
              /\ (p.known /\ ~p.active) => code = "API_KEY_DISABLED"
              /\ (p.known /\ p.active /\ p.expired) => code = "API_KEY_EXPIRED"
              /\ (p.known /\ p.active /\ ~p.expired) =>
                    (rateLast'.limited /\ code \in {"ok", "RATE_LIMIT_EXCEEDED"})
              /\ code \in {"UNAUTHORIZED", "INVALID_API_KEY", "API_KEY_DISABLED",
                           "API_KEY_EXPIRED"} =>
                    /\ ~rateLast'.limited
                    /\ rateRedis' = rateRedis
                    /\ rateLocal' = rateLocal
                    /\ admitted' = admitted
              /\ code # "ok" => usage' = usage
              /\ code = "ok" =>
                    /\ usage'.usageCount = usage.usageCount + 1
                    /\ usage'.lastUsedAt = now]_vars

\* After an admitted request, a key that is both disabled and expired was
\* answered API_KEY_DISABLED; the one admitted request is the one counted.
RejectsBeforeCountingWitness ==
    /\ rateLast.code = "API_KEY_DISABLED"
    /\ rateLast.presented.known
    /\ ~rateLast.presented.active
    /\ rateLast.presented.expired
    /\ usage.usageCount = 1
    /\ admitted[now] = 1


(***************************************************************************)
(* The cancellation specification: /get-email requests whose client may    *)
(* go away before the response.                                            *)
(***************************************************************************)
NextCancel ==
    \/ \E c \in RaceCalls, k \in ApiKeys, g \in GroupNames : GetEmailBegin(c, k, g)
    \/ \E c \in RaceCalls : GetEmailAllocate(c)
    \/ \E c \in RaceCalls : GetEmailMarkOk(c)
    \/ \E c \in RaceCalls : GetEmailMarkConflict(c)
    \/ \E c \in RaceCalls : GetEmailCancel(c)

SpecCancel == RaceInit /\ [][NextCancel]_vars

\* C29: a /get-email request that was cancelled before its response was
\* delivered leaves no EmailUsage row of its own.
CancelledLeavesNoRow ==
    \A c \in CallIds :
        (calls[c].cancelled /\ calls[c].pc = "done" /\ calls[c].code = "ok") =>
            usages[calls[c].key][calls[c].email] = 0

(***************************************************************************)
(* The fetch strategy specification: /mail_new on mailboxes whose group    *)
(* has any fetch strategy.                                                 *)
(***************************************************************************)
StrategyInit ==
    /\ PoolIdle
    /\ RateIdle
    /\ LoginIdle
    /\ TokenIdle
    /\ RetentionIdle
    /\ PermIdle
    /\ TwoFaIdle
    /\ CryptoIdle
    /\ ImapIdle
    /\ ParseIdle
    /\ TotpIdle
    /\ LoginPairIdle
    /\ LoginRaceIdle
    /\ clearLast = NoClear
    /\ fetchStrategy \in [Addresses -> FetchStrategies]
    /\ now = 0
    /\ redisConfigured = TRUE
    /\ redisFailed = FALSE

NextStrategy == \E q \in FetchRequests : Fetch("mail_new", q)

SpecStrategy == StrategyInit /\ [][NextStrategy]_vars

\* The calls getEmails made to Graph, and to IMAP.
graphSteps == {"graph_token", "graph_list"}
imapSteps == {"imap_token", "imap_list"}

\* C27: a fetch follows the fetch strategy of the group of the mailbox:
\* GRAPH_FIRST starts with Graph, IMAP_FIRST starts with IMAP, GRAPH_ONLY
\* never calls IMAP and IMAP_ONLY never calls Graph.
StrategyHonoured ==
    fetched =>
        LET strategy == fetchStrategy[fetchLast.mailbox]
            steps == fetchLast.steps
        IN  /\ strategy = "GRAPH_FIRST" => Head(steps) \in graphSteps
            /\ strategy = "IMAP_FIRST" => Head(steps) \in imapSteps
            /\ strategy = "GRAPH_ONLY" => Range(steps) \cap imapSteps = {}
            /\ strategy = "IMAP_ONLY" => Range(steps) \cap graphSteps = {}

(***************************************************************************)
(* The mailbox clearing specification.                                     *)
(***************************************************************************)
ClearInit ==
    /\ PoolIdle
    /\ RateIdle
    /\ LoginIdle
    /\ TokenIdle
    /\ RetentionIdle
    /\ PermIdle
    /\ TwoFaIdle
    /\ MailboxIdle
    /\ CryptoIdle
    /\ ImapIdle
    /\ ParseIdle
    /\ TotpIdle
    /\ LoginPairIdle
    /\ LoginRaceIdle
    /\ now = 0
    /\ redisConfigured = FALSE
    /\ redisFailed = FALSE

NextClear == \E in \in ClearInputs : ProcessMailbox(in)

SpecClear == ClearInit /\ [][NextClear]_vars

\* C28: the deletedCount a clearing answers is the number of messages whose
\* deletion succeeded; a DELETE that fails does not end the call and is not
\* counted.
DeletedCountExact ==
    clearLast.code = "ok" =>
        /\ clearLast.deletedCount = clearLast.removed
        /\ clearLast.in.throwsAt = 0 => clearLast.status = "success"

(***************************************************************************)
(* The secret box specification.                                           *)
(***************************************************************************)
CryptoInit ==
    /\ PoolIdle
    /\ RateIdle
    /\ LoginIdle
    /\ TokenIdle
    /\ RetentionIdle
    /\ PermIdle
    /\ TwoFaIdle
    /\ MailboxIdle
    /\ CryptoIdle
    /\ ImapIdle
    /\ ParseIdle
    /\ TotpIdle
    /\ LoginPairIdle
    /\ LoginRaceIdle
    /\ now = 0
    /\ redisConfigured = FALSE
    /\ redisFailed = FALSE

NextCrypto ==
    \E text \in Plaintexts, iv \in Ivs, strictUpdate \in BOOLEAN :
        \E blob \in Edits(encrypt(text, iv)) : Decrypt(text, iv, blob, strictUpdate)

SpecCrypto == CryptoInit /\ [][NextCrypto]_vars

\* Whether a blob is three hex segments joined by colons.
threeHexSegments(blob) ==
    /\ Len(split(blob)) = 3
    /\ \A i \in 1..3 : isHex(split(blob)[i])

\* C30: decrypt(encrypt(p)) is p for every plaintext p; decrypt fails on a
\* blob that is not three colon-separated hex segments, and on a blob in
\* which a byte of the nonce, the tag or the ciphertext was altered.
SecretBoxSound ==
    cryptoLast.done =>
        /\ cryptoLast.blob = cryptoLast.stored =>
               (cryptoLast.ok /\ cryptoLast.out = cryptoLast.text)
        /\ ~threeHexSegments(cryptoLast.blob) => ~cryptoLast.ok
        /\ (threeHexSegments(cryptoLast.blob)
              /\ cryptoLast.blob # cryptoLast.stored) => ~cryptoLast.ok
\* The mailboxes /pool-stats of key k with filter groupName counts in total:
\* ACTIVE, in the scope of the key, in the group when one is given.
countedInTotal(k, groupName) ==
    {m \in Mailboxes :
        /\ emailStatus[m] = "ACTIVE"
        /\ InResolvedScope(k, m)
        /\ inGroupFilter(m, groupName)}

\* C40: stats(credential, group?) counts in used only the assignments of the
\* credential to mailboxes it counts in total (ACTIVE, in scope, in the group
\* when given), so used <= total and used + remaining = total.
StatsUsedWithinTotal ==
    [][(poolStep("pool-stats") /\ poolLast'.code = "ok") =>
          LET counted == countedInTotal(poolLast'.key, poolLast'.group)
              stats == poolLast'.stats
          IN  /\ stats.total = Cardinality(counted)
              /\ stats.used =
                     Cardinality(counted \cap assignedTo(usages, poolLast'.key))
              /\ stats.used <= stats.total
              /\ stats.used + stats.remaining = stats.total]_vars

\* A /pool-stats that counted an assignment while the key holds another one,
\* on a mailbox that is not ACTIVE, which it did not count.
StatsUsedWitness ==
    /\ poolLast.op = "pool-stats" /\ poolLast.code = "ok"
    /\ poolLast.stats.used > 0
    /\ poolLast.stats.used < Cardinality(assignedTo(usages, poolLast.key))
    /\ \E m \in assignedTo(usages, poolLast.key) : emailStatus[m] # "ACTIVE"
\* C34: at most one retention execution is in progress; a tick during an
\* execution returns without deleting; the running flag is released when an
\* execution ends, by a deleteMany that answered or one that threw, so that
\* the flag is set only while an execution is in progress and a later tick
\* starts one.
RetentionExclusive ==
    [][/\ retentionJob'.inFlight <= 1
       /\ running' <=> retentionJob'.inFlight = 1
       /\ (retentionJob'.skipped /\ ~retentionJob.skipped) =>
              /\ running
              /\ apiLogs' = apiLogs
              /\ retentionJob'.inFlight = retentionJob.inFlight
              /\ retentionLast' = retentionLast
       /\ retentionJob'.inFlight < retentionJob.inFlight => ~running'
       /\ (~running /\ retentionJob'.startedAt # retentionJob.startedAt) =>
              /\ running'
              /\ retentionJob'.inFlight = 1]_vars

\* An execution whose deleteMany threw has ended, a later tick started the
\* next execution, and a tick during that one returned at the flag.
RetentionExclusiveWitness ==
    /\ retentionLast.outcome = "failed"
    /\ running
    /\ retentionJob.startedAt > retentionLast.startedAt
    /\ retentionJob.skipped
    /\ apiLogs # {}
\* C33: /get-email ends after at most 3 passes of allocate and mark_used.
\* Its outcome is CONCURRENCY_LIMIT exactly when the mark_used of all 3
\* passes collided with ALREADY_USED; it is NO_UNUSED_EMAIL as soon as a pass
\* finds no eligible mailbox; another error of mark_used ends the request at
\* once; and a request that fails inserts no EmailUsage row.
GetEmailLoopBounded ==
    [][\A c \in CallIds :
          LET call == calls[c]
              after == calls'[c]
          IN  /\ after.i <= MaxAttempts
              /\ (after.pc = "done" /\ call.pc # "done") =>
                     (after.code = "CONCURRENCY_LIMIT" <=> after.i = MaxAttempts)
              /\ (call.pc = "alloc" /\ after # call /\ call.i < MaxAttempts
                     /\ scopeError(call.key, call.group) = "ok"
                     /\ eligible(call.key, call.group) = {}) =>
                     (after.pc = "done" /\ after.code = "NO_UNUSED_EMAIL")
              /\ (call.pc = "mark" /\ after.pc = "alloc") =>
                     /\ usages[call.key][call.email] > 0
                     /\ after.i = call.i + 1
              /\ (call.pc = "mark" /\ after.pc = "done" /\ after.code # "ok") =>
                     /\ after.code \notin {"ALREADY_USED", "CONCURRENCY_LIMIT",
                                            "NO_UNUSED_EMAIL"}
                     /\ after.i = call.i
              /\ (after # call /\ ~(after.pc = "done" /\ after.code = "ok")) =>
                     usages' = usages]_vars

\* A request ended with CONCURRENCY_LIMIT after three collisions, while the
\* key holds the three rows of the requests that won.
GetEmailLoopWitness ==
    \E c \in CallIds :
        /\ calls[c].pc = "done"
        /\ calls[c].code = "CONCURRENCY_LIMIT"
        /\ calls[c].i = MaxAttempts
        /\ Cardinality(assignedTo(usages, calls[c].key)) = MaxAttempts
(***************************************************************************)
(* The mail access specification: the fetching routes, asked by keys with  *)
(* any scope.  A route reads request.apiKey.id for the permission check    *)
(* and for the log only, so the request of every key runs Fetch alike.     *)
(***************************************************************************)
AccessInit ==
    /\ PoolStart
    /\ apiKeyScope \in
          {f \in [ApiKeys -> Scopes] :
              /\ f[1] \in {Unrestricted,
                            [allowedGroupIds |-> {}, allowedEmailIds |-> {1}],
                            [allowedGroupIds |-> {}, allowedEmailIds |-> {2}],
                            [allowedGroupIds |-> {2}, allowedEmailIds |-> {}]}
              /\ \A k \in ApiKeys \ {1} : f[k] = Unrestricted}
    /\ RateIdle
    /\ LoginIdle
    /\ TokenIdle
    /\ RetentionIdle
    /\ PermIdle
    /\ TwoFaIdle
    /\ MailboxIdle
    /\ CryptoIdle
    /\ ImapIdle
    /\ ParseIdle
    /\ TotpIdle
    /\ LoginPairIdle
    /\ LoginRaceIdle
    /\ now = 0
    /\ redisConfigured = TRUE
    /\ redisFailed = FALSE

NextAccess == \E route \in FetchRoutes, q \in FetchRequests : Fetch(route, q)

SpecAccess == AccessInit /\ [][NextAccess]_vars

\* C37: a key fetches mail only of a mailbox inside its resolved scope: a
\* request that reached the token exchange, the listing and the status
\* write of a mailbox is the request of no key whose scope excludes it
\* (such a request ends with EMAIL_FORBIDDEN before any of them).
FetchWithinScope ==
    fetched =>
        \A k \in ApiKeys : InResolvedScope(k, fetchLast.mailbox)
(***************************************************************************)
(* The concurrent login specification.                                     *)
(***************************************************************************)
LoginRaceInit ==
    /\ PoolIdle
    /\ RateIdle
    /\ maxLoginAttempts \in 1..2
    /\ loginAdmin = [status |-> "ACTIVE", twoFactor |-> "off",
                     isDefault |-> FALSE, legacy2Fa |-> FALSE]
    /\ loginRedis = NoLoginRedis
    /\ loginLocal = NoLoginLocal
    /\ loginLast = NoLogin
    /\ loginStreak = NoStreak
    /\ TokenIdle
    /\ RetentionIdle
    /\ PermIdle
    /\ TwoFaIdle
    /\ MailboxIdle
    /\ CryptoIdle
    /\ ImapIdle
    /\ ParseIdle
    /\ TotpIdle
    /\ LoginPairIdle
    /\ LoginRaceIdle
    /\ now = 0
    /\ redisConfigured \in BOOLEAN
    /\ redisFailed = FALSE

NextLoginRace ==
    \/ \E c \in LoginCallIds, password \in BOOLEAN : LoginCheckLock(c, password)
    \/ \E c \in LoginCallIds : LoginRecordFailure(c)
    \/ \E c \in LoginCallIds : LoginClearAttempts(c)
    \/ Tick

SpecLoginRace == LoginRaceInit /\ [][NextLoginRace]_vars

\* The time at which the lock of the key ends, as a lock check at t sees it
\* (t when no lock is in force).
lockedUntil(redis, local, t) ==
    t + getLockRemainingSeconds(redis, local, t, FALSE).remaining

\* C38: a lock that is set for the key stays in force until its window has
\* elapsed, under every interleaving of concurrent login calls: no step of a
\* call that passed the lock check before the lock was set clears, shortens
\* or replaces the lock.
LockStaysInForce ==
    [][lockedUntil(loginRedis, loginLocal, now) > now =>
          lockedUntil(loginRedis', loginLocal', now')
              = lockedUntil(loginRedis, loginLocal, now)]_vars
(***************************************************************************)
(* The paired login specification.                                         *)
(***************************************************************************)
LoginPairInit ==
    /\ PoolIdle
    /\ RateIdle
    /\ maxLoginAttempts \in 1..MaxLoginAttempts
    /\ loginAdmin = [status |-> "ACTIVE", twoFactor |-> "off",
                     isDefault |-> FALSE, legacy2Fa |-> FALSE]
    /\ loginRedis = NoLoginRedis
    /\ loginLocal = NoLoginLocal
    /\ loginLast = NoLogin
    /\ loginStreak = NoStreak
    /\ TokenIdle
    /\ RetentionIdle
    /\ PermIdle
    /\ TwoFaIdle
    /\ MailboxIdle
    /\ CryptoIdle
    /\ ImapIdle
    /\ ParseIdle
    /\ TotpIdle
    /\ LoginPairIdle
    /\ LoginRaceIdle
    /\ now = 0
    /\ redisConfigured = TRUE
    /\ redisFailed = FALSE

NextLoginPair ==
    \/ \E password \in BOOLEAN : LoginPair(password)
    \/ Tick

SpecLoginPair == LoginPairInit /\ [][NextLoginPair]_vars

\* C39: for one time-stamped sequence of login attempts on one key and any
\* max_attempts >= 1, the shared-store path and the in-process fallback
\* give the same outcome at every attempt (success, 401 or 429) and set the
\* lock at the same attempt with the same expiry.
PathsAgree == loginPair.shared = loginPair.inProcess
(***************************************************************************)
(* The TOTP specification.                                                 *)
(***************************************************************************)
TotpInit ==
    /\ PoolIdle
    /\ RateIdle
    /\ LoginIdle
    /\ TokenIdle
    /\ RetentionIdle
    /\ PermIdle
    /\ TwoFaIdle
    /\ MailboxIdle
    /\ CryptoIdle
    /\ ImapIdle
    /\ ParseIdle
    /\ TotpIdle
    /\ LoginPairIdle
    /\ LoginRaceIdle
    /\ now = 0
    /\ redisConfigured = FALSE
    /\ redisFailed = FALSE

\* One call, with any input.
NextTotp ==
    /\ totpLast = NoTotp
    /\ \E secret \in TotpSecrets, t \in TotpTimes, at \in TotpTimes,
          window \in 0..MaxWindowAsked :
           \E token \in {generateTotpCodeAt(secret, t)} \cup MalformedTokens :
               VerifyTotp(secret, t, at, window, token)

SpecTotp == TotpInit /\ [][NextTotp]_vars

\* |x|
absolute(x) == IF x < 0 THEN -x ELSE x

\* The last call verified the code of its secret at t, at the time at.
verifiedCodeAt ==
    /\ totpLast.done
    /\ totpLast.token = generateTotpCodeAt(totpLast.secret, totpLast.t)

\* The number of time steps between t and at.
stepsApart == absolute(currentStepAt(totpLast.at) - currentStepAt(totpLast.t))

\* C31 (as stated): verifyTotpCode(s, code_at(s, t), w, t + D) is true if and
\* only if |D / 30| <= w, for w in 0..5; a token that is missing or not
\* exactly six digits is rejected.
TotpWindowByOffset ==
    /\ verifiedCodeAt =>
          (totpLast.result <=>
              absolute(totpLast.at - totpLast.t) <= totpLast.window * StepTicks)
    /\ (totpLast.done /\ totpLast.token \in MalformedTokens) => ~totpLast.result

\* C31 (amended): verifyTotpCode(s, code_at(s, t), w, t + D) is true exactly
\* when code_at(s, t) is the code of a time step at most w steps from the
\* step of t + D, so it is true whenever the steps of t and t + D are at
\* most w apart; a token that is missing or not exactly six digits is
\* rejected.
TotpWindowBySteps ==
    /\ verifiedCodeAt =>
          /\ totpLast.result <=>
                \E k \in TotpSteps :
                    /\ absolute(k - currentStepAt(totpLast.at)) <= totpLast.window
                    /\ generateHotpCode(totpLast.secret, k) = totpLast.token
          /\ stepsApart <= totpLast.window => totpLast.result
    /\ (totpLast.done /\ totpLast.token \in MalformedTokens) => ~totpLast.result

\* A code verified one step later with window 1, more than 30 seconds after
\* it was generated, while no other step of the window has the same code.
TotpWindowWitness ==
    /\ verifiedCodeAt
    /\ totpLast.result
    /\ totpLast.window = 1
    /\ currentStepAt(totpLast.at) = currentStepAt(totpLast.t) + 1
    /\ totpLast.at - totpLast.t > StepTicks
    /\ \A k \in TotpSteps \ {currentStepAt(totpLast.t)} :
          absolute(k - currentStepAt(totpLast.at)) <= 1 =>
              generateHotpCode(totpLast.secret, k) # totpLast.token
(***************************************************************************)
(* The permission parsing specification.                                   *)
(***************************************************************************)
ParseInit ==
    /\ PoolIdle
    /\ RateIdle
    /\ LoginIdle
    /\ TokenIdle
    /\ RetentionIdle
    /\ PermIdle
    /\ TwoFaIdle
    /\ MailboxIdle
    /\ CryptoIdle
    /\ ImapIdle
    /\ ParseIdle
    /\ TotpIdle
    /\ LoginPairIdle
    /\ LoginRaceIdle
    /\ now = 0
    /\ redisConfigured = FALSE
    /\ redisFailed = FALSE

\* One call, with any value.
NextParse ==
    /\ parseLast = NoParse
    /\ \E value \in ParseValues : ParseApiPermissions(value)

SpecParse == ParseInit /\ [][NextParse]_vars

\* The entries of the parsed value that the result is to hold: those with a
\* boolean value and a normalized key that is a wildcard or a known action,
\* under the normalized key.
keptEntries ==
    {[key |-> normalizeApiPermissionKey(e.key), value |-> e.value] :
        e \in {parseLast.value.entries[i] :
                  i \in {j \in 1..Len(parseLast.value.entries) :
                            LET x == parseLast.value.entries[j]
                            IN  /\ x.value \in {"true", "false"}
                                /\ \/ normalizeApiPermissionKey(x.key) \in WILDCARD_KEYS
                                   \/ normalizeApiPermissionKey(x.key)
                                          \in ALLOWED_ACTION_KEYS}}}

\* The entries of a parsed map.
entrySet(permissions) ==
    {[key |-> k, value |-> permissions.entries[k]] :
        k \in DOMAIN permissions.entries}

\* C32 (as stated): parseApiPermissions returns exactly the entries of its
\* input with a boolean value and a normalized key that is a wildcard or a
\* known action, under the normalized key, and undefined when none remains;
\* parsing a parsed map returns it unchanged.
ParsedKeepsKnownEntries ==
    parseLast.done =>
        /\ parseLast.parsed.defined <=> keptEntries # {}
        /\ entrySet(parseLast.parsed) = keptEntries
        /\ parseLast.again = parseLast.parsed

\* C32 (amended): the same, where of the input entries that have the same
\* normalized key the last one alone is returned.
ParsedKeepsLastKnownEntries ==
    parseLast.done =>
        /\ parseLast.parsed.defined <=> keptEntries # {}
        /\ entrySet(parseLast.parsed) \subseteq keptEntries
        /\ \A i \in 1..Len(parseLast.value.entries) :
              LET x == parseLast.value.entries[i]
                  k == normalizeApiPermissionKey(x.key)
              IN  (/\ [key |-> k, value |-> x.value] \in keptEntries
                   /\ \A j \in (i + 1)..Len(parseLast.value.entries) :
                         LET y == parseLast.value.entries[j]
                         IN  ~(/\ normalizeApiPermissionKey(y.key) = k
                               /\ y.value \in {"true", "false"}))
                      => (/\ k \in DOMAIN parseLast.parsed.entries
                          /\ parseLast.parsed.entries[k] = x.value)
        /\ parseLast.again = parseLast.parsed

\* A hyphenated alias was stored under its underscore key while an unknown
\* key was dropped.
ParsedWitness ==
    /\ parseLast.done
    /\ parseLast.value.entries =
           <<[key |-> <<"mail", "-", "all">>, value |-> "true"],
             [key |-> <<"unknown", "_", "action">>, value |-> "true"]>>
    /\ DOMAIN parseLast.parsed.entries = {<<"mail", "_", "all">>}
    /\ parseLast.parsed.entries[<<"mail", "_", "all">>] = "true"
(***************************************************************************)
(* The IMAP fetch specification.                                           *)
(***************************************************************************)
\* A call for a folder of up to MaxResults messages, each with a date or
\* none (0), and a limit; imap.connect() has been called.
ImapInit ==
    /\ PoolIdle
    /\ RateIdle
    /\ LoginIdle
    /\ TokenIdle
    /\ RetentionIdle
    /\ PermIdle
    /\ TwoFaIdle
    /\ MailboxIdle
    /\ CryptoIdle
    /\ ParseIdle
    /\ TotpIdle
    /\ LoginPairIdle
    /\ LoginRaceIdle
    /\ now = 0
    /\ redisConfigured = FALSE
    /\ redisFailed = FALSE
    /\ \E n \in 0..MaxResults, limit \in 1..MaxLimit :
          \E dates \in [1..n -> 0..MaxDate] :
              imap = [NoImap EXCEPT !.phase = "connecting", !.n = n,
                                    !.dates = dates, !.limit = limit]

NextImap ==
    \/ ImapReady
    \/ \E err \in BOOLEAN : OpenBox(err)
    \/ \E err \in BOOLEAN : Search(err)
    \/ \E m \in 1..MaxResults : FetchMessage(m)
    \/ \E m \in 1..MaxResults : MessageBody(m)
    \/ \E m \in 1..MaxResults, ok \in BOOLEAN : ParseDone(m, ok)
    \/ FetchError
    \/ FetchEnd
    \/ ConnectionError
    \/ ConnectionEnd

SpecImap == ImapInit /\ [][NextImap]_vars

\* C35: on every exit path of the IMAP fetch (open-box error, search error,
\* empty search result, fetch error, connection 'error' event, normal
\* completion) imap.end() has been called when the promise is settled, and
\* the promise is settled when nothing more can happen.
ClosedOnEveryExit ==
    /\ imap.outcome # "pending" => imap.endCalled
    /\ ~ENABLED NextImap => imap.outcome # "pending"

\* The messages of the resolved value.
resolvedSet == {imap.value[i] : i \in 1..Len(imap.value)}

====
